---- MODULE Spec2Model ----
(***************************************************************************)
(* The match-extraction engine of src/dml/get-results.py: one competition's *)
(* run of scrape_flashscore_competition inside fetch_all_competitions.     *)
(*                                                                         *)
(* Text is a sequence of one-character strings, so that the code's string  *)
(* tests (isdigit, substring, regular expressions, zfill, slicing) are      *)
(* computed on the characters.  A date is the triple <<year, month, day>>  *)
(* where the code holds a datetime, and text where the code holds text.    *)
(***************************************************************************)
EXTENDS Integers, Sequences, FiniteSets, TLC

\* ------------------------------------------------------------------ text

\* The alphabets, the character classes and the operators on text, numbers
\* and dates of this section are what str, int and datetime of the Python
\* runtime do; the program has no line of its own for them.

Digits == {"0", "1", "2", "3", "4", "5", "6", "7", "8", "9"}

DigitSeq == <<"0", "1", "2", "3", "4", "5", "6", "7", "8", "9">>

LowerLetters == <<"a", "b", "c", "d", "e", "f", "g", "h", "i", "j", "k", "l", "m", "n", "o", "p", "q", "r", "s", "t", "u", "v", "w", "x", "y", "z">>

UpperLetters == <<"A", "B", "C", "D", "E", "F", "G", "H", "I", "J", "K", "L", "M", "N", "O", "P", "Q", "R", "S", "T", "U", "V", "W", "X", "Y", "Z">>

SetMin(S) == CHOOSE x \in S : \A y \in S : x <= y

SetMax(S) == CHOOSE x \in S : \A y \in S : y <= x

DigitVal(c) ==
  CASE c = "0" -> 0 [] c = "1" -> 1 [] c = "2" -> 2 [] c = "3" -> 3 [] c = "4" -> 4
    [] c = "5" -> 5 [] c = "6" -> 6 [] c = "7" -> 7 [] c = "8" -> 8 [] c = "9" -> 9

UpperSet == {UpperLetters[i] : i \in 1..26}

LowerSet == {LowerLetters[i] : i \in 1..26}

IsUpper(c) == c \in UpperSet

IsLower(c) == c \in LowerSet

IsAlpha(c) == IsUpper(c) \/ IsLower(c)

\* \s of the regular expressions: the model's text holds the blank only.
IsSpace(c) == c = " "

LowerChar(c) ==
  IF IsUpper(c) THEN LowerLetters[CHOOSE i \in 1..26 : UpperLetters[i] = c] ELSE c

UpperChar(c) ==
  IF IsLower(c) THEN UpperLetters[CHOOSE i \in 1..26 : LowerLetters[i] = c] ELSE c

\* str.lower() and str.upper(), character by character
MapChars(s, up) == [i \in 1..Len(s) |-> IF up THEN UpperChar(s[i]) ELSE LowerChar(s[i])]

Lower(s) == MapChars(s, FALSE)

Upper(s) == MapChars(s, TRUE)

RECURSIVE LStrip(_)
\* str.lstrip()
LStrip(s) == IF s # <<>> /\ IsSpace(Head(s)) THEN LStrip(Tail(s)) ELSE s

RECURSIVE RStrip(_)
\* str.rstrip()
RStrip(s) == IF s # <<>> /\ IsSpace(s[Len(s)]) THEN RStrip(SubSeq(s, 1, Len(s) - 1)) ELSE s

\* str.strip()
Strip(s) == RStrip(LStrip(s))

\* sub in s
Contains(sub, s) ==
  \E i \in 0..(Len(s) - Len(sub)) : SubSeq(s, i + 1, i + Len(sub)) = sub

\* str.isdigit()
IsDigitStr(s) == Len(s) > 0 /\ \A i \in 1..Len(s) : s[i] \in Digits

RECURSIVE ToInt(_)
\* int(s) of a string of digits
ToInt(s) ==
  IF s = <<>> THEN 0 ELSE 10 * ToInt(SubSeq(s, 1, Len(s) - 1)) + DigitVal(s[Len(s)])

RECURSIVE IntToStr(_)
\* str(n), n >= 0
IntToStr(n) ==
  IF n < 10 THEN <<DigitSeq[n + 1]>>
  ELSE IntToStr(n \div 10) \o <<DigitSeq[(n % 10) + 1]>>

\* s.zfill(2)
Zfill2(s) ==
  IF Len(s) >= 2 THEN s ELSE IF Len(s) = 1 THEN <<"0">> \o s ELSE <<"0", "0">>

\* s[:n]
Take(s, n) == SubSeq(s, 1, IF n < Len(s) THEN n ELSE Len(s))

RECURSIVE Join(_, _)
\* sep.join(strs)
Join(strs, sep) ==
  IF strs = <<>> THEN <<>>
  ELSE IF Len(strs) = 1 THEN strs[1]
  ELSE strs[1] \o sep \o Join(Tail(strs), sep)

\* The end of the run of digits that starts at s[i] (i - 1 when s[i] is no digit).
DigitRunEnd(s, i) ==
  SetMax({i - 1} \cup {j \in i..Len(s) : \A k \in i..j : s[k] \in Digits})

\* The first position from i on that holds no blank (Len(s) + 1 when none).
SkipSpaces(s, i) ==
  SetMin({Len(s) + 1} \cup {j \in i..Len(s) : ~IsSpace(s[j])})

\* re.sub(r'[^A-Z0-9_]', '_', s)
RECURSIVE SlugChars(_)
SlugChars(s) ==
  IF s = <<>> THEN <<>>
  ELSE <<IF IsUpper(Head(s)) \/ Head(s) \in Digits \/ Head(s) = "_" THEN Head(s) ELSE "_">>
       \o SlugChars(Tail(s))

\* ------------------------------------------------------------- calendar

IsLeap(y) == (y % 4 = 0 /\ y % 100 # 0) \/ y % 400 = 0

DaysInMonth(y, m) ==
  IF m = 2 THEN (IF IsLeap(y) THEN 29 ELSE 28)
  ELSE IF m \in {4, 6, 9, 11} THEN 30 ELSE 31

\* datetime(y, m, d) does not raise ValueError
ValidDate(y, m, d) ==
  y \in 1..9999 /\ m \in 1..12 /\ d >= 1 /\ d <= DaysInMonth(y, m)

\* a <= b and a < b of two dates <<y, m, d>>
DateLE(a, b) ==
  \/ a[1] < b[1]
  \/ a[1] = b[1] /\ a[2] < b[2]
  \/ a[1] = b[1] /\ a[2] = b[2] /\ a[3] <= b[3]

DateLT(a, b) == DateLE(a, b) /\ a # b

\* dt.strftime("%Y-%m-%d") of a date with a four-digit year
Strftime(d) == IntToStr(d[1]) \o <<"-">> \o Zfill2(IntToStr(d[2])) \o <<"-">> \o Zfill2(IntToStr(d[3]))

\* f"{year}-{month.zfill(2)}-{day.zfill(2)}": year, month and day are text
FormatYMD(year, month, day) == year \o <<"-">> \o Zfill2(month) \o <<"-">> \o Zfill2(day)

\* What datetime.strptime accepts for %d and %m (a field of one or two digits,
\* never zero) and for %Y (four digits).
DayField(s) ==
  /\ Len(s) \in 1..2
  /\ \/ IsDigitStr(s) /\ ToInt(s) \in 1..31
     \/ Len(s) = 2 /\ s[1] = " " /\ s[2] \in Digits \ {"0"}

MonthField(s) == Len(s) \in 1..2 /\ IsDigitStr(s) /\ ToInt(s) \in 1..12

YearField(s) == Len(s) = 4 /\ IsDigitStr(s)

\* The positions of character c in s.
Places(s, c) == {i \in 1..Len(s) : s[i] = c}

\* The three fields of s around separator c, or <<>> when s does not hold
\* exactly two of them.
Fields3(s, c) ==
  LET at == Places(s, c)
  IN IF Cardinality(at) # 2 THEN <<>>
     ELSE LET i == SetMin(at)
              j == SetMax(at)
          IN <<SubSeq(s, 1, i - 1), SubSeq(s, i + 1, j - 1), SubSeq(s, j + 1, Len(s))>>

NoDate == <<>>

\* datetime.strptime(s, "%Y-%m-%d"): the date, or NoDate for ValueError
StrptimeYMD(s) ==
  LET f == Fields3(s, "-")
  IN IF f # <<>> /\ YearField(f[1]) /\ MonthField(f[2]) /\ DayField(f[3])
        /\ ValidDate(ToInt(f[1]), ToInt(f[2]), ToInt(Strip(f[3])))
     THEN <<ToInt(f[1]), ToInt(f[2]), ToInt(Strip(f[3]))>>
     ELSE NoDate

\* ------------------------------------------------------ program constants

\* The keys of COMPETITIONS, in the order the dictionary holds them.
COMPETITIONS == <<<<"U", "C", "L">>, <<"U", "E", "L">>, <<"U", "E", "C", "L">>>>

NATIONAL_TEAM_INDICATORS == <<<<"n", "a", "t", "i", "o", "n", "a", "l", " ", "t", "e", "a", "m">>, <<"n", "a", "t", "i", "o", "n", "a", "l", " ", "s", "q", "u", "a", "d">>, <<"c", "o", "u", "n", "t", "r", "y", " ", "t", "e", "a", "m">>>>

CLUB_INDICATORS ==
  << <<"F", "C">>, <<"C", "F">>, <<"A", "C">>, <<"A", "S">>, <<"S", "C">>, <<"U", "n", "i", "t", "e", "d">>, <<"C", "i", "t", "y">>, <<"R", "e", "a", "l">>, <<"B", "a", "y", "e", "r", "n">>,
     <<"B", "a", "r", "c", "e", "l", "o", "n", "a">>, <<"M", "a", "d", "r", "i", "d">>, <<"C", "h", "e", "l", "s", "e", "a">>, <<"A", "r", "s", "e", "n", "a", "l">>, <<"L", "i", "v", "e", "r", "p", "o", "o", "l">>, <<"M", "a", "n", "c", "h", "e", "s", "t", "e", "r">>,
     <<"C", "l", "u", "b">>, <<"A", "t", "h", "l", "e", "t", "i", "c">>, <<"S", "p", "o", "r", "t", "i", "n", "g">>, <<"O", "l", "y", "m", "p", "i", "q", "u", "e">>, <<"P", "a", "r", "i", "s">>, <<"M", "i", "l", "a", "n">>, <<"I", "n", "t", "e", "r">> >>

\* The alternatives of country_only_patterns, which is anchored at both ends.
COUNTRY_ONLY ==
  { <<"e", "n", "g", "l", "a", "n", "d">>, <<"s", "p", "a", "i", "n">>, <<"f", "r", "a", "n", "c", "e">>, <<"g", "e", "r", "m", "a", "n", "y">>, <<"i", "t", "a", "l", "y">>, <<"p", "o", "r", "t", "u", "g", "a", "l">>,
    <<"n", "e", "t", "h", "e", "r", "l", "a", "n", "d", "s">>, <<"b", "e", "l", "g", "i", "u", "m">>, <<"p", "o", "l", "a", "n", "d">>, <<"g", "r", "e", "e", "c", "e">>, <<"t", "u", "r", "k", "e", "y">>, <<"r", "u", "s", "s", "i", "a">>,
    <<"u", "k", "r", "a", "i", "n", "e">>, <<"s", "w", "e", "d", "e", "n">>, <<"n", "o", "r", "w", "a", "y">>, <<"d", "e", "n", "m", "a", "r", "k">>, <<"c", "r", "o", "a", "t", "i", "a">>, <<"s", "e", "r", "b", "i", "a">>,
    <<"r", "o", "m", "a", "n", "i", "a">>, <<"b", "u", "l", "g", "a", "r", "i", "a">>, <<"h", "u", "n", "g", "a", "r", "y">>, <<"c", "z", "e", "c", "h">>, <<"s", "l", "o", "v", "a", "k", "i", "a">>, <<"s", "w", "i", "t", "z", "e", "r", "l", "a", "n", "d">>,
    <<"a", "u", "s", "t", "r", "i", "a">>, <<"s", "c", "o", "t", "l", "a", "n", "d">>, <<"w", "a", "l", "e", "s">>, <<"i", "r", "e", "l", "a", "n", "d">>, <<"f", "i", "n", "l", "a", "n", "d">>, <<"i", "c", "e", "l", "a", "n", "d">> }

\* The placeholder date the code tests for.
PLACEHOLDER_DATE == <<"2", "0", "2", "4", "-", "0", "1", "-", "0", "1">>

UNKNOWN == <<"U", "N", "K", "N", "O", "W", "N">>

\* phase_mapping, in the order of the dictionary literal
PHASE_MAPPING ==
  << <<<<"l", "e", "a", "g", "u", "e", " ", "p", "h", "a", "s", "e">>, <<"L", "E", "A", "G", "U", "E", "_", "P", "H", "A", "S", "E">>>>, <<<<"l", "e", "a", "g", "u", "e">>, <<"L", "E", "A", "G", "U", "E", "_", "P", "H", "A", "S", "E">>>>,
     <<<<"g", "r", "o", "u", "p", " ", "s", "t", "a", "g", "e">>, <<"L", "E", "A", "G", "U", "E", "_", "P", "H", "A", "S", "E">>>>, <<<<"g", "r", "o", "u", "p">>, <<"L", "E", "A", "G", "U", "E", "_", "P", "H", "A", "S", "E">>>>,
     <<<<"k", "n", "o", "c", "k", "o", "u", "t", " ", "p", "h", "a", "s", "e">>, <<"K", "N", "O", "C", "K", "O", "U", "T", "_", "P", "H", "A", "S", "E">>>>, <<<<"k", "n", "o", "c", "k", "o", "u", "t">>, <<"K", "N", "O", "C", "K", "O", "U", "T", "_", "P", "H", "A", "S", "E">>>>,
     <<<<"k", "o", " ", "p", "h", "a", "s", "e">>, <<"K", "N", "O", "C", "K", "O", "U", "T", "_", "P", "H", "A", "S", "E">>>>, <<<<"r", "o", "u", "n", "d", " ", "o", "f", " ", "1", "6">>, <<"R", "O", "U", "N", "D", "_", "O", "F", "_", "1", "6">>>>,
     <<<<"r", "o", "1", "6">>, <<"R", "O", "U", "N", "D", "_", "O", "F", "_", "1", "6">>>>, <<<<"1", "/", "8", " ", "f", "i", "n", "a", "l">>, <<"R", "O", "U", "N", "D", "_", "O", "F", "_", "1", "6">>>>,
     <<<<"r", "o", "u", "n", "d", " ", "o", "f", " ", "8">>, <<"Q", "U", "A", "R", "T", "E", "R", "_", "F", "I", "N", "A", "L">>>>, <<<<"r", "o", "8">>, <<"Q", "U", "A", "R", "T", "E", "R", "_", "F", "I", "N", "A", "L">>>>,
     <<<<"1", "/", "4", " ", "f", "i", "n", "a", "l">>, <<"Q", "U", "A", "R", "T", "E", "R", "_", "F", "I", "N", "A", "L">>>>, <<<<"q", "u", "a", "r", "t", "e", "r">>, <<"Q", "U", "A", "R", "T", "E", "R", "_", "F", "I", "N", "A", "L">>>>,
     <<<<"q", "u", "a", "r", "t", "e", "r", "-", "f", "i", "n", "a", "l">>, <<"Q", "U", "A", "R", "T", "E", "R", "_", "F", "I", "N", "A", "L">>>>, <<<<"s", "e", "m", "i">>, <<"S", "E", "M", "I", "_", "F", "I", "N", "A", "L">>>>,
     <<<<"s", "e", "m", "i", "-", "f", "i", "n", "a", "l">>, <<"S", "E", "M", "I", "_", "F", "I", "N", "A", "L">>>>, <<<<"s", "e", "m", "i", " ", "f", "i", "n", "a", "l">>, <<"S", "E", "M", "I", "_", "F", "I", "N", "A", "L">>>>,
     <<<<"f", "i", "n", "a", "l">>, <<"F", "I", "N", "A", "L">>>>, <<<<"p", "l", "a", "y", "-", "o", "f", "f">>, <<"P", "L", "A", "Y", "_", "O", "F", "F">>>>, <<<<"p", "l", "a", "y", "o", "f", "f">>, <<"P", "L", "A", "Y", "_", "O", "F", "F">>>>,
     <<<<"q", "u", "a", "l", "i", "f", "y", "i", "n", "g">>, <<"Q", "U", "A", "L", "I", "F", "Y", "I", "N", "G">>>>, <<<<"p", "r", "e", "l", "i", "m", "i", "n", "a", "r", "y">>, <<"P", "R", "E", "L", "I", "M", "I", "N", "A", "R", "Y">>>> >>

\* ---------------------------------------------------------- is_club_team

HasClubIndicator(team_lower) ==
  \E k \in 1..Len(CLUB_INDICATORS) : Contains(Lower(CLUB_INDICATORS[k]), team_lower)

IsClubTeam(team_name) ==
  /\ Len(Strip(team_name)) >= 3
  /\ LET team_lower == Strip(Lower(team_name))
     IN /\ \A k \in 1..Len(NATIONAL_TEAM_INDICATORS) :
             ~Contains(NATIONAL_TEAM_INDICATORS[k], team_lower)
        /\ (team_lower \in COUNTRY_ONLY => HasClubIndicator(team_lower))

\* ------------------------------------------------------------ parameters

\* The parameters are None (isNone) or a dictionary from keys to text.
NoParams == [isNone |-> TRUE, dict |-> <<>>]

\* params.get(key): the value, or the empty text where the code gets None
ParamsGet(params, key) ==
  IF key \in DOMAIN params.dict THEN params.dict[key] ELSE <<>>

\* "if params": neither None nor an empty dictionary
ParamsTruthy(params) == ~params.isNone /\ DOMAIN params.dict # {}

\* is_match_in_league_phase with the two ends of the window left out
\* (initial_dt < match_dt < end_dt)
StrictlyInLeaguePhase(match_date, competition_code, params) ==
  IF match_date = <<>> \/ match_date = PLACEHOLDER_DATE THEN FALSE
  ELSE LET initial_date_str == ParamsGet(params, competition_code \o <<"_", "L", "E", "A", "G", "U", "E", "_", "P", "H", "A", "S", "E", "_", "I", "N", "I", "T", "I", "A", "L", "_", "D", "A", "T", "E">>)
           end_date_str == ParamsGet(params, competition_code \o <<"_", "L", "E", "A", "G", "U", "E", "_", "P", "H", "A", "S", "E", "_", "E", "N", "D", "_", "D", "A", "T", "E">>)
           match_dt == StrptimeYMD(match_date)
           initial_dt == StrptimeYMD(initial_date_str)
           end_dt == StrptimeYMD(end_date_str)
       IN IF initial_date_str = <<>> \/ end_date_str = <<>> THEN TRUE
          ELSE IF match_dt = NoDate \/ initial_dt = NoDate \/ end_dt = NoDate THEN FALSE
          ELSE DateLT(initial_dt, match_dt) /\ DateLT(match_dt, end_dt)

IsMatchInLeaguePhase(match_date, competition_code, params) ==
  IF match_date = <<>> \/ match_date = PLACEHOLDER_DATE THEN FALSE
  ELSE LET initial_date_str == ParamsGet(params, competition_code \o <<"_", "L", "E", "A", "G", "U", "E", "_", "P", "H", "A", "S", "E", "_", "I", "N", "I", "T", "I", "A", "L", "_", "D", "A", "T", "E">>)
           end_date_str == ParamsGet(params, competition_code \o <<"_", "L", "E", "A", "G", "U", "E", "_", "P", "H", "A", "S", "E", "_", "E", "N", "D", "_", "D", "A", "T", "E">>)
           match_dt == StrptimeYMD(match_date)
           initial_dt == StrptimeYMD(initial_date_str)
           end_dt == StrptimeYMD(end_date_str)
       IN IF initial_date_str = <<>> \/ end_date_str = <<>> THEN TRUE
          ELSE IF match_dt = NoDate \/ initial_dt = NoDate \/ end_dt = NoDate THEN FALSE
          ELSE DateLE(initial_dt, match_dt) /\ DateLE(match_dt, end_dt)

\* ------------------------------------------------------ generate_match_id

\* Two texts that generate_match_id hashes and whose md5 digests, as hashlib
\* computes them, begin with the same eight digits, EBF1ADBE.
EqualDigestTexts ==
  { <<"U", "C", "L", "|", "2", "0", "2", "4", "/", "2", "0", "2", "5", "|", "L", "E", "A", "G", "U", "E", "_", "P", "H", "A", "S", "E", "|", "F", "C", " ", "T", "e", "a", "m", " ", "5", "7", "5", "1", "0", "|", "P", "S", "G", "|", "2", "0", "2", "4", "-", "1", "2", "-", "1", "0">>,
    <<"U", "C", "L", "|", "2", "0", "2", "4", "/", "2", "0", "2", "5", "|", "L", "E", "A", "G", "U", "E", "_", "P", "H", "A", "S", "E", "|", "F", "C", " ", "T", "e", "a", "m", " ", "9", "0", "3", "8", "7", "|", "P", "S", "G", "|", "2", "0", "2", "4", "-", "1", "2", "-", "1", "0">> }

\* hashlib.md5(s.encode()).hexdigest()[:8].upper().  The digest is not
\* computed.  For the two texts above it is the value hashlib gives; for every
\* other text it is stood for by the text it is taken of, so that two
\* identifiers agree in it exactly when the hashed texts agree.
Md5Hex8(s) == IF s \in EqualDigestTexts THEN <<"E", "B", "F", "1", "A", "D", "B", "E">> ELSE s

\* season.replace("/", "_")
RECURSIVE ReplaceSlash(_)
ReplaceSlash(s) ==
  IF s = <<>> THEN <<>>
  ELSE <<IF Head(s) = "/" THEN "_" ELSE Head(s)>> \o ReplaceSlash(Tail(s))

\* The hashed text without the date of the match.
MatchStringWithoutDate(competition, season, phase, home_team, away_team, match_date) ==
  Join(<<competition, season, phase, home_team, away_team>>, <<"|">>)

\* match_string (line 180)
MatchString(competition, season, phase, home_team, away_team, match_date) ==
  Join(<<competition, season, phase, home_team, away_team, match_date>>, <<"|">>)

GenerateMatchId(competition, season, phase, home_team, away_team, match_date) ==
  LET match_string == MatchString(competition, season, phase, home_team, away_team, match_date)
      match_hash == Md5Hex8(match_string)
      phase_clean == Take(SlugChars(Upper(phase)), 20)
      season_clean == ReplaceSlash(season)
  IN Join(<<competition, season_clean, phase_clean, match_hash>>, <<"_">>)

\* -------------------------------------------------------- normalize_phase

\* The value of the last key, from entry k on, that occurs in phase_lower.
LastMapping(phase_lower, k) ==
  LET hits == { j \in k..Len(PHASE_MAPPING) : Contains(PHASE_MAPPING[j][1], phase_lower) }
  IN IF hits = {} THEN <<>> ELSE PHASE_MAPPING[SetMax(hits)][2]

RECURSIVE FirstMapping(_, _)
\* The value of the first key, from entry k on, that occurs in phase_lower;
\* the empty text when none does.
FirstMapping(phase_lower, k) ==
  IF k > Len(PHASE_MAPPING) THEN <<>>
  ELSE IF Contains(PHASE_MAPPING[k][1], phase_lower) THEN PHASE_MAPPING[k][2]
  ELSE FirstMapping(phase_lower, k + 1)

\* normalize_phase without the replacement of the characters outside
\* A-Z, 0-9 and "_"
UpperPhase(phase_text) ==
  IF phase_text = <<>> THEN UNKNOWN
  ELSE LET mapped == FirstMapping(Strip(Lower(phase_text)), 1)
       IN IF mapped # <<>> THEN mapped
          ELSE Take(Upper(phase_text), 30)

NormalizePhase(phase_text) ==
  IF phase_text = <<>> THEN UNKNOWN
  ELSE LET mapped == FirstMapping(Strip(Lower(phase_text)), 1)
       IN IF mapped # <<>> THEN mapped
          ELSE Take(SlugChars(Upper(phase_text)), 30)

\* -------------------------------------------------- infer_phase_from_date

\* The windows of one competition for the season that starts in year y:
\* <<phase, first day, last day>> in the order of the if/elif chain.
PhaseWindows(competition_code, y) ==
  IF competition_code = <<"U", "C", "L">> THEN
    << <<<<"L", "E", "A", "G", "U", "E", "_", "P", "H", "A", "S", "E">>, <<y, 9, 16>>, <<y + 1, 1, 28>> >>,
       <<<<"K", "N", "O", "C", "K", "O", "U", "T", "_", "P", "H", "A", "S", "E">>, <<y + 1, 2, 17>>, <<y + 1, 2, 25>> >>,
       <<<<"R", "O", "U", "N", "D", "_", "O", "F", "_", "1", "6">>, <<y + 1, 3, 10>>, <<y + 1, 3, 18>> >>,
       <<<<"Q", "U", "A", "R", "T", "E", "R", "_", "F", "I", "N", "A", "L">>, <<y + 1, 4, 7>>, <<y + 1, 4, 15>> >>,
       <<<<"S", "E", "M", "I", "_", "F", "I", "N", "A", "L">>, <<y + 1, 4, 28>>, <<y + 1, 5, 6>> >>,
       <<<<"F", "I", "N", "A", "L">>, <<y + 1, 5, 30>>, <<y + 1, 5, 30>> >> >>
  ELSE IF competition_code = <<"U", "E", "L">> THEN
    << <<<<"L", "E", "A", "G", "U", "E", "_", "P", "H", "A", "S", "E">>, <<y, 9, 16>>, <<y + 1, 1, 28>> >>,
       <<<<"K", "N", "O", "C", "K", "O", "U", "T", "_", "P", "H", "A", "S", "E">>, <<y + 1, 2, 19>>, <<y + 1, 2, 25>> >>,
       <<<<"R", "O", "U", "N", "D", "_", "O", "F", "_", "1", "6">>, <<y + 1, 3, 12>>, <<y + 1, 3, 19>> >>,
       <<<<"Q", "U", "A", "R", "T", "E", "R", "_", "F", "I", "N", "A", "L">>, <<y + 1, 4, 9>>, <<y + 1, 4, 16>> >>,
       <<<<"S", "E", "M", "I", "_", "F", "I", "N", "A", "L">>, <<y + 1, 4, 30>>, <<y + 1, 5, 7>> >>,
       <<<<"F", "I", "N", "A", "L">>, <<y + 1, 5, 20>>, <<y + 1, 5, 20>> >> >>
  ELSE IF competition_code = <<"U", "E", "C", "L">> THEN
    << <<<<"L", "E", "A", "G", "U", "E", "_", "P", "H", "A", "S", "E">>, <<y, 9, 16>>, <<y + 1, 1, 28>> >>,
       <<<<"K", "N", "O", "C", "K", "O", "U", "T", "_", "P", "H", "A", "S", "E">>, <<y + 1, 2, 19>>, <<y + 1, 2, 25>> >>,
       <<<<"R", "O", "U", "N", "D", "_", "O", "F", "_", "1", "6">>, <<y + 1, 3, 12>>, <<y + 1, 3, 19>> >>,
       <<<<"Q", "U", "A", "R", "T", "E", "R", "_", "F", "I", "N", "A", "L">>, <<y + 1, 4, 9>>, <<y + 1, 4, 16>> >>,
       <<<<"S", "E", "M", "I", "_", "F", "I", "N", "A", "L">>, <<y + 1, 4, 30>>, <<y + 1, 5, 7>> >>,
       <<<<"F", "I", "N", "A", "L">>, <<y + 1, 5, 27>>, <<y + 1, 5, 27>> >> >>
  ELSE <<>>

RECURSIVE OpenWindow(_, _, _)
\* The chain with windows that leave out their first and last day.
OpenWindow(windows, match_dt, k) ==
  IF k > Len(windows) THEN UNKNOWN
  ELSE IF DateLT(windows[k][2], match_dt) /\ DateLT(match_dt, windows[k][3]) THEN windows[k][1]
  ELSE OpenWindow(windows, match_dt, k + 1)

RECURSIVE FirstWindow(_, _, _)
FirstWindow(windows, match_dt, k) ==
  IF k > Len(windows) THEN UNKNOWN
  ELSE IF DateLE(windows[k][2], match_dt) /\ DateLE(match_dt, windows[k][3]) THEN windows[k][1]
  ELSE FirstWindow(windows, match_dt, k + 1)

\* season.split('/')[0]
BeforeSlash(season) ==
  LET at == Places(season, "/")
  IN IF at = {} THEN season ELSE SubSeq(season, 1, SetMin(at) - 1)

InferPhaseFromDate(competition_code, match_date, season) ==
  IF match_date = <<>> \/ match_date = PLACEHOLDER_DATE THEN UNKNOWN
  ELSE LET match_dt == StrptimeYMD(match_date)
           first == BeforeSlash(season)
       IN IF match_dt = NoDate \/ ~IsDigitStr(first) THEN UNKNOWN
          ELSE IF ToInt(first) \notin 1..9998 THEN UNKNOWN
          ELSE FirstWindow(PhaseWindows(competition_code, ToInt(first)), match_dt, 1)

\* ------------------------------------------------- the date expressions

DigitsAt(s, i, n) == i >= 1 /\ i + n - 1 <= Len(s) /\ \A k \in i..(i + n - 1) : s[k] \in Digits

CharAt(s, i, chars) == i >= 1 /\ i <= Len(s) /\ s[i] \in chars

\* The lengths the two greedy \d{1,2} groups of a date expression take, in
\* the order the matcher tries them.
DayMonthSplits == << <<2, 2>>, <<2, 1>>, <<1, 2>>, <<1, 1>> >>

NoMatch == [found |-> FALSE, day |-> <<>>, month |-> <<>>, year |-> <<>>]

\* (\d{1,2})\.(\d{1,2}) at position i with the groups dl and ml long
MatchDM(s, i, dl, ml) ==
  DigitsAt(s, i, dl) /\ CharAt(s, i + dl, {"."}) /\ DigitsAt(s, i + dl + 1, ml)

\* (\d{1,2})[./](\d{1,2})[./](\d{4}) at position i
MatchDMY(s, i, dl, ml) ==
  /\ DigitsAt(s, i, dl) /\ CharAt(s, i + dl, {".", "/"})
  /\ DigitsAt(s, i + dl + 1, ml) /\ CharAt(s, i + dl + 1 + ml, {".", "/"})
  /\ DigitsAt(s, i + dl + ml + 2, 4)

\* (\d{1,2})\.(\d{1,2})(?!\.) at position i
MatchDMNoDot(s, i, dl, ml) ==
  MatchDM(s, i, dl, ml) /\ ~CharAt(s, i + dl + 1 + ml, {"."})

\* The groups of a match that starts at s[i], its day dl and its month ml long
Groups(s, i, dl, ml, year) ==
  [found |-> TRUE, day |-> SubSeq(s, i, i + dl - 1),
   month |-> SubSeq(s, i + dl + 1, i + dl + ml), year |-> year]

\* (?:\.(\d{4}))? from position after on
OptYear(s, after) ==
  IF CharAt(s, after, {"."}) /\ DigitsAt(s, after + 1, 4)
  THEN SubSeq(s, after + 1, after + 4) ELSE <<>>

GroupsDMOptYear(s, i, dl, ml) == Groups(s, i, dl, ml, OptYear(s, i + dl + 1 + ml))

GroupsDMY(s, i, dl, ml) == Groups(s, i, dl, ml, SubSeq(s, i + dl + ml + 2, i + dl + ml + 5))

GroupsDM(s, i, dl, ml) == Groups(s, i, dl, ml, <<>>)

\* re.search: the match at the leftmost of the positions starts, with the
\* first of the splits that matches there
MatchSplit(s, i, split, Found(_, _, _, _)) == Found(s, i, split[1], split[2])

MatchFrom(s, i, Match(_, _, _, _), Found(_, _, _, _)) ==
  MatchSplit(s, i,
             DayMonthSplits[SetMin({n \in 1..4 :
                              Match(s, i, DayMonthSplits[n][1], DayMonthSplits[n][2])})],
             Found)

MatchLeftmost(s, starts, Match(_, _, _, _), Found(_, _, _, _)) ==
  IF starts = {} THEN NoMatch ELSE MatchFrom(s, SetMin(starts), Match, Found)

Search(s, Match(_, _, _, _), Found(_, _, _, _)) ==
  MatchLeftmost(s, {i \in 1..Len(s) :
                      \E k \in 1..4 : Match(s, i, DayMonthSplits[k][1], DayMonthSplits[k][2])},
                Match, Found)

\* re.search(r'(\d{1,2})\.(\d{1,2})(?:\.(\d{4}))?', s): the leftmost match,
\* the optional year taken when it follows
SearchDayMonthOptYear(s) == Search(s, MatchDM, GroupsDMOptYear)

\* re.search(r'(\d{1,2})[./](\d{1,2})[./](\d{4})', s)
SearchDayMonthYear(s) == Search(s, MatchDMY, GroupsDMY)

\* re.search(r'(\d{1,2})\.(\d{1,2})(?!\.)', s)
SearchDayMonthNoDot(s) == Search(s, MatchDMNoDot, GroupsDM)

\* re.match(r'^\d{1,2}\.\d{1,2}', s)
StartsLikeDate(s) == \E k \in 1..4 : MatchDM(s, 1, DayMonthSplits[k][1], DayMonthSplits[k][2])

\* The year the code gives a day and month that come without one, the
\* processing date being now; 0 when datetime(year, month, day) raises.
\* datetime.now() is later than the midnight of its own day, so a date is
\* "> datetime.now()" exactly when it is a later day.
\* The year as it is, also for a day after now.
NotSteppedBack(year, month, day, now) ==
  IF ~ValidDate(year, month, day) THEN 0 ELSE year

SteppedBack(year, month, day, now) ==
  IF ~ValidDate(year, month, day) THEN 0
  ELSE IF DateLT(now, <<year, month, day>>) THEN year - 1
  ELSE year

InferYear(day, month, now) ==
  SteppedBack(IF ToInt(month) > now[2] THEN now[1] - 1 ELSE now[1], ToInt(month), ToInt(day), now)

\* --------------------------------------------------------------- parse_date

MONTH_NAMES ==
  << <<"j", "a", "n", "u", "a", "r", "y">>, <<"f", "e", "b", "r", "u", "a", "r", "y">>, <<"m", "a", "r", "c", "h">>, <<"a", "p", "r", "i", "l">>, <<"m", "a", "y">>, <<"j", "u", "n", "e">>, <<"j", "u", "l", "y">>,
     <<"a", "u", "g", "u", "s", "t">>, <<"s", "e", "p", "t", "e", "m", "b", "e", "r">>, <<"o", "c", "t", "o", "b", "e", "r">>, <<"n", "o", "v", "e", "m", "b", "e", "r">>, <<"d", "e", "c", "e", "m", "b", "e", "r">> >>

\* %B (abbr = FALSE) or %b (abbr = TRUE): the month a name stands for, 0 for none
MonthOfName(name, abbr) ==
  LET hits == {m \in 1..12 :
                 Lower(name) = (IF abbr THEN Take(MONTH_NAMES[m], 3) ELSE MONTH_NAMES[m])}
  IN IF hits = {} THEN 0 ELSE SetMin(hits)

RECURSIVE WordsOf(_)
WordsOf(t) ==
  IF t = <<>> THEN <<>>
  ELSE IF Places(t, " ") = {} THEN <<t>>
  ELSE <<SubSeq(t, 1, SetMin(Places(t, " ")) - 1)>>
       \o WordsOf(Strip(SubSeq(t, SetMin(Places(t, " ")), Len(t))))

\* s.split(): the blank-separated words of s
Words(s) == WordsOf(Strip(s))

\* %y: a two-digit year, 69-99 in the 1900s and 00-68 in the 2000s
TwoDigitYear(s) == IF ToInt(s) >= 69 THEN 1900 + ToInt(s) ELSE 2000 + ToInt(s)

DateOrNone(y, m, d) == IF ValidDate(y, m, d) THEN <<y, m, d>> ELSE NoDate

\* The date of the fields f of a day, a month and a year
DateOfFields(f, long) ==
  IF f = <<>> \/ ~DayField(f[1]) \/ ~MonthField(f[2]) THEN NoDate
  ELSE IF long THEN
    (IF YearField(f[3]) THEN DateOrNone(ToInt(f[3]), ToInt(f[2]), ToInt(Strip(f[1]))) ELSE NoDate)
  ELSE
    (IF Len(f[3]) = 2 /\ IsDigitStr(f[3])
     THEN DateOrNone(TwoDigitYear(f[3]), ToInt(f[2]), ToInt(Strip(f[1]))) ELSE NoDate)

\* datetime.strptime(s, fmt) for "%d.%m.%Y" and "%d/%m/%Y" (sep "." or "/",
\* long = TRUE) and for "%d.%m.%y" and "%d/%m/%y" (long = FALSE)
StrptimeDMY(s, sep, long) == DateOfFields(Fields3(s, sep), long)

\* The date of the words w of a day, a month name and a year
DateOfDayNameYear(w, abbr) ==
  IF Len(w) = 3 /\ DayField(w[1]) /\ IsDigitStr(w[1]) /\ MonthOfName(w[2], abbr) # 0
     /\ YearField(w[3])
  THEN DateOrNone(ToInt(w[3]), MonthOfName(w[2], abbr), ToInt(w[1]))
  ELSE NoDate

\* "%d %B %Y" and "%d %b %Y"
StrptimeDayNameYear(s, abbr) == DateOfDayNameYear(Words(s), abbr)

\* The date of a month name, a day text d and a year text
DateOfNameDayYear(name, d, year, abbr) ==
  IF MonthOfName(name, abbr) # 0 /\ IsDigitStr(d) /\ DayField(d) /\ YearField(year)
  THEN DateOrNone(ToInt(year), MonthOfName(name, abbr), ToInt(d))
  ELSE NoDate

WordsNameDayYear(w, abbr) ==
  IF Len(w) = 3 /\ Len(w[2]) >= 2 /\ w[2][Len(w[2])] = ","
  THEN DateOfNameDayYear(w[1], SubSeq(w[2], 1, Len(w[2]) - 1), w[3], abbr)
  ELSE NoDate

\* "%B %d, %Y" and "%b %d, %Y"
StrptimeNameDayYear(s, abbr) == WordsNameDayYear(Words(s), abbr)

\* The dates the formats of parse_date give for s, in the order of the list.
FormatDates(s) ==
  << StrptimeDMY(s, ".", TRUE), StrptimeDMY(s, "/", TRUE), StrptimeYMD(s),
     StrptimeDayNameYear(s, FALSE), StrptimeDayNameYear(s, TRUE),
     StrptimeNameDayYear(s, FALSE), StrptimeNameDayYear(s, TRUE),
     StrptimeDMY(s, ".", FALSE), StrptimeDMY(s, "/", FALSE) >>

RECURSIVE FirstDate(_)
\* The loop over the formats: the first date that parses, NoDate for none
FirstDate(dates) ==
  IF dates = <<>> THEN NoDate
  ELSE IF Head(dates) # NoDate THEN Head(dates)
  ELSE FirstDate(Tail(dates))

RECURSIVE FirstText(_)
\* The first of texts that is not empty, the empty text for none
FirstText(texts) ==
  IF texts = <<>> THEN <<>>
  ELSE IF Head(texts) # <<>> THEN Head(texts)
  ELSE FirstText(Tail(texts))

\* dt.strftime("%Y-%m-%d") of datetime(y, m, d), the empty text when it raises
DateText(y, m, d) == IF ValidDate(y, m, d) THEN Strftime(<<y, m, d>>) ELSE <<>>

StrftimeOrNone(date) == IF date = NoDate THEN <<>> ELSE Strftime(date)

\* the expression with the year (lines 410-418), m its match
FullDateText(m) ==
  IF m.found THEN DateText(ToInt(m.year), ToInt(m.month), ToInt(m.day)) ELSE <<>>

InYear(year, m) ==
  IF year = 0 THEN <<>> ELSE DateText(year, ToInt(m.month), ToInt(m.day))

\* the expression without the year (lines 420-439), m its match
ShortDateText(m, now) ==
  IF m.found THEN InYear(InferYear(m.day, m.month, now), m) ELSE <<>>

ParseStripped(s, now) ==
  IF s = <<>> THEN <<>>
  ELSE FirstText(<< StrftimeOrNone(FirstDate(FormatDates(s))),
                    FullDateText(SearchDayMonthYear(s)),
                    ShortDateText(SearchDayMonthNoDot(s), now) >>)

\* parse_date(date_str) at processing date now: the date text, or the empty
\* text for None
ParseDate(date_str, now) == ParseStripped(Strip(date_str), now)

\* ------------------------------------------------------------- elements

(***************************************************************************)
(* A match element is the sequence of its text-bearing nodes (span, div or *)
(* a), each with the kind its class attribute gives it and its text, and   *)
(* "parent": the nodes found under the element's parent outside it.        *)
(* The kinds stand for the class patterns of the find_all calls:           *)
(*   "participant"  event__participant|participant                         *)
(*   "score"        event__score|event__result|score                       *)
(*   "time"         event__time|event__date|time|date                      *)
(*   "stage"        event__stage|event__round|round|stage|phase            *)
(*   "text"         none of them                                           *)
(* No text holds the character "|".                                        *)
(***************************************************************************)

\* [n.get_text(strip=True) for n in nodes of the kind]
RECURSIVE TextsOfKind(_, _)
TextsOfKind(nodes, kind) ==
  IF nodes = <<>> THEN <<>>
  ELSE (IF Head(nodes).cls = kind THEN <<Strip(Head(nodes).txt)>> ELSE <<>>)
       \o TextsOfKind(Tail(nodes), kind)

RECURSIVE NonEmptyTexts(_)
NonEmptyTexts(nodes) ==
  IF nodes = <<>> THEN <<>>
  ELSE (IF Strip(Head(nodes).txt) # <<>> THEN <<Strip(Head(nodes).txt)>> ELSE <<>>)
       \o NonEmptyTexts(Tail(nodes))

\* [p.strip() for p in full_text.split('|')], where full_text is
\* match_element.get_text(separator=' | ', strip=True)
PartsOf(texts) == IF texts = <<>> THEN << <<>> >> ELSE texts

Parts(element) == PartsOf(NonEmptyTexts(element.nodes))

RECURSIVE SelectSeq2(_, _, _)
\* The first max members of parts that Test accepts.
SelectSeq2(parts, Test(_), max) ==
  IF parts = <<>> \/ max = 0 THEN <<>>
  ELSE IF Test(Head(parts)) THEN <<Head(parts)>> \o SelectSeq2(Tail(parts), Test, max - 1)
  ELSE SelectSeq2(Tail(parts), Test, max)

RECURSIVE Distinct(_)
\* parts without the repetitions, first occurrences kept
Distinct(parts) ==
  IF parts = <<>> THEN <<>>
  ELSE IF \E i \in 1..(Len(parts) - 1) : parts[i] = parts[Len(parts)]
    THEN Distinct(SubSeq(parts, 1, Len(parts) - 1))
  ELSE Append(Distinct(SubSeq(parts, 1, Len(parts) - 1)), parts[Len(parts)])

\* A part that may be a team name: no number, not shaped like a date, longer
\* than two characters.
TeamLike(part) == ~IsDigitStr(part) /\ ~StartsLikeDate(part) /\ Len(part) > 2

\* re.sub(r'^\d+\.?\s*', '', s)
StripOrdinal(s) ==
  IF ~CharAt(s, 1, Digits) THEN s
  ELSE SubSeq(s, SkipSpaces(s, DigitRunEnd(s, 1) + 1
                               + (IF CharAt(s, DigitRunEnd(s, 1) + 1, {"."}) THEN 1 ELSE 0)),
              Len(s))

RECURSIVE CollapseSpaces(_)
\* re.sub(r'\s+', ' ', s)
CollapseSpaces(s) ==
  IF s = <<>> THEN <<>>
  ELSE IF IsSpace(Head(s)) THEN <<" ">> \o CollapseSpaces(SubSeq(s, SkipSpaces(s, 1), Len(s)))
  ELSE <<Head(s)>> \o CollapseSpaces(Tail(s))

CleanTeam(name) == CollapseSpaces(Strip(StripOrdinal(name)))

NoTeams == [home |-> <<>>, away |-> <<>>]

\* Method 1 (lines 756-762): the participant elements
TeamsOfParticipants(participants) ==
  IF Len(participants) < 2 THEN NoTeams
  ELSE [home |-> participants[1],
        away |-> IF participants[1] = participants[2] /\ Len(participants) >= 3
                 THEN participants[3] ELSE participants[2]]

\* Method 2 (lines 764-789): the first two team-like parts of the delimited
\* text give the names that are still missing
TeamsOfParts(teams, team_candidates) ==
  IF (teams.home = <<>> \/ teams.away = <<>>) /\ Len(team_candidates) >= 2
  THEN [home |-> IF teams.home = <<>> THEN team_candidates[1] ELSE teams.home,
        away |-> IF teams.away = <<>> THEN team_candidates[2] ELSE teams.away]
  ELSE teams

\* A text that may be a team name
Substantial(text) == text # <<>> /\ Len(text) > 3 /\ ~IsDigitStr(text)

\* [e.get_text(strip=True) for e in nodes]
StrippedTexts(nodes) == [i \in 1..Len(nodes) |-> Strip(nodes[i].txt)]

\* Method 3 (lines 791-819): the first two distinct substantial texts of any
\* node give the names that are still missing
TeamsOfTexts(teams, text_elements) ==
  IF (teams.home = <<>> \/ teams.away = <<>>) /\ Len(text_elements) >= 2
  THEN [home |-> IF teams.home = <<>> THEN text_elements[1] ELSE teams.home,
        away |-> IF teams.away = <<>>
                    /\ text_elements[2] # (IF teams.home = <<>> THEN text_elements[1]
                                           ELSE teams.home)
                 THEN text_elements[2] ELSE teams.away]
  ELSE teams

\* Lines 849-858: the names too short or the same
CheckedTeams(teams) ==
  [found |-> Len(teams.home) >= 2 /\ Len(teams.away) >= 2 /\ teams.home # teams.away,
   home |-> teams.home, away |-> teams.away]

\* Lines 833-847: the same name twice, the delimited text is tried again
FinalTeams(teams, again) ==
  CheckedTeams(IF teams.home = teams.away /\ teams.home # <<>> /\ Len(again) >= 2
               THEN [home |-> again[1], away |-> again[2]]
               ELSE teams)

\* Lines 821-831: no teams, else the names cleaned
CleanedTeams(teams, again) ==
  IF teams.home = <<>> \/ teams.away = <<>>
  THEN [found |-> FALSE, home |-> <<>>, away |-> <<>>]
  ELSE FinalTeams([home |-> CleanTeam(teams.home), away |-> CleanTeam(teams.away)], again)

TeamsOfElement(parts, nodes) ==
  CleanedTeams(
    TeamsOfTexts(
      TeamsOfParts(TeamsOfParticipants(TextsOfKind(nodes, "participant")),
                   SelectSeq2(parts, TeamLike, 2)),
      Take(Distinct(SelectSeq2(StrippedTexts(nodes), Substantial, Len(nodes))), 2)),
    Take(Distinct(SelectSeq2(parts, TeamLike, Len(parts))), 2))

\* The two team names of an element (lines 748-858): found is FALSE where
\* the code counts no_teams and goes on to the next element.
ExtractTeams(element) == TeamsOfElement(Parts(element), element.nodes)

NoScore == [found |-> FALSE, home_goals |-> 0, away_goals |-> 0]

\* re.search(r'(\d+)\s*[:]\s*(\d+)', s): the leftmost match.  A match starts
\* where a run of digits starts, since the run's first digit matches wherever
\* a later one does.
SearchColonScore(s) ==
  LET colonAt(i) == SkipSpaces(s, DigitRunEnd(s, i) + 1)
      second(i) == SkipSpaces(s, colonAt(i) + 1)
      hit(i) == /\ CharAt(s, i, Digits)
                /\ CharAt(s, colonAt(i), {":"})
                /\ CharAt(s, second(i), Digits)
      starts == {i \in 1..Len(s) : hit(i)}
  IN IF starts = {} THEN NoScore
     ELSE LET i == SetMin(starts)
          IN [found |-> TRUE,
              home_goals |-> ToInt(SubSeq(s, i, DigitRunEnd(s, i))),
              away_goals |-> ToInt(SubSeq(s, second(i), DigitRunEnd(s, second(i))))]

\* The digits a text ends with and the digits a text starts with.
TrailingDigits(s) ==
  LET from == SetMin({Len(s) + 1} \cup {i \in 1..Len(s) : \A k \in i..Len(s) : s[k] \in Digits})
  IN SubSeq(s, from, Len(s))

LeadingDigits(s) == SubSeq(s, 1, DigitRunEnd(s, 1))

\* The score of an element (lines 860-904): found is FALSE where the code
\* counts no_score and goes on to the next element.
ExtractScore(element) ==
  LET parts == Parts(element)
      \* Method 1: "2:2" anywhere in the text; the expression cannot reach
      \* over the " | " between two parts
      colon == {i \in 1..Len(parts) : SearchColonScore(parts[i]).found}
      \* Method 2: two consecutive parts that are numbers
      pair == {i \in 1..(Len(parts) - 1) : IsDigitStr(parts[i]) /\ IsDigitStr(parts[i + 1])}
      \* Method 3: re.search(r'(\d+)\s*[|]\s*(\d+)', full_text): a part that
      \* ends with digits before a part that starts with digits
      piped == {i \in 1..(Len(parts) - 1) :
                  TrailingDigits(parts[i]) # <<>> /\ LeadingDigits(parts[i + 1]) # <<>>}
      \* Method 4: the score elements, whose text holds no "|"
      score_texts == TextsOfKind(element.nodes, "score")
      inScore == {i \in 1..Len(score_texts) : SearchColonScore(score_texts[i]).found}
  IN IF colon # {} THEN SearchColonScore(parts[SetMin(colon)])
     ELSE IF pair # {} THEN
       [found |-> TRUE, home_goals |-> ToInt(parts[SetMin(pair)]),
        away_goals |-> ToInt(parts[SetMin(pair) + 1])]
     ELSE IF piped # {} THEN
       [found |-> TRUE, home_goals |-> ToInt(TrailingDigits(parts[SetMin(piped)])),
        away_goals |-> ToInt(LeadingDigits(parts[SetMin(piped) + 1]))]
     ELSE IF inScore # {} THEN SearchColonScore(score_texts[SetMin(inScore)])
     ELSE NoScore

\* f"{year}-{month.zfill(2)}-{day.zfill(2)}" with the year inferred, the
\* empty text when the inference raises
InferredDate(year, m) ==
  IF year = 0 THEN <<>> ELSE FormatYMD(IntToStr(year), m.month, m.day)

\* The date of the match m of a date expression (lines 918-950, 972-978 and
\* 983-1000): the empty text for no match and for a year that cannot be
\* inferred.
MatchedDate(m, now) ==
  IF ~m.found THEN <<>>
  ELSE IF m.year # <<>> THEN FormatYMD(m.year, m.month, m.day)
  ELSE InferredDate(InferYear(m.day, m.month, now), m)

\* Method 1 of the date (lines 912-950) on one part
InlineDate(part, now) == MatchedDate(SearchDayMonthOptYear(part), now)

RECURSIVE FirstFound(_)
\* The first match of a sequence of search results, NoMatch for none
FirstFound(results) ==
  IF results = <<>> THEN NoMatch
  ELSE IF Head(results).found THEN Head(results)
  ELSE FirstFound(Tail(results))

\* Method 2 (lines 952-967): the date elements of the element, else of its parent
DateElements(element) ==
  IF TextsOfKind(element.nodes, "time") # <<>> THEN TextsOfKind(element.nodes, "time")
  ELSE TextsOfKind(element.parent, "time")

ParsedDate(date_elements, now) ==
  IF date_elements # <<>> THEN ParseDate(date_elements[1], now) ELSE <<>>

\* The four methods in their order
DateOfParts(parts, date_elements, now) ==
  FirstText(<<
    FirstText([i \in 1..Len(parts) |-> InlineDate(parts[i], now)]),
    ParsedDate(date_elements, now),
    \* Method 3: a date with its year anywhere in the text
    MatchedDate(FirstFound([i \in 1..Len(parts) |-> SearchDayMonthYear(parts[i])]), now),
    \* Method 4: the first day and month without a year
    MatchedDate(FirstFound([i \in 1..Len(parts) |-> SearchDayMonthNoDot(parts[i])]), now) >>)

\* The date recovered from an element itself (lines 906-1000), the empty text
\* when all four methods fail.
ExtractDate(element, now) == DateOfParts(Parts(element), DateElements(element), now)

\* The phase label of an element (lines 1012-1019): the text of its first
\* stage element, else of its parent's; the empty text when there is none.
FirstOrNone(phase_elements) ==
  IF phase_elements # <<>> THEN phase_elements[1] ELSE <<>>

PhaseText(element) ==
  FirstOrNone(IF TextsOfKind(element.nodes, "stage") # <<>>
              THEN TextsOfKind(element.nodes, "stage")
              ELSE TextsOfKind(element.parent, "stage"))

\* The season of a record (lines 1024-1038).
SeasonFrom(year) == IntToStr(year - 1) \o <<"/">> \o IntToStr(year)

\* lines 1028-1036, f the fields of match_date.split('-')
SeasonOfFields(f, now) ==
  IF f # <<>> /\ IsDigitStr(f[1]) /\ IsDigitStr(f[2])
  THEN (IF ToInt(f[2]) >= 7 THEN SeasonFrom(ToInt(f[1]) + 1) ELSE SeasonFrom(ToInt(f[1])))
  ELSE SeasonFrom(now[1])

\* The season of the date, whatever the parameters hold
SeasonOfDate(match_date, params, now) ==
  IF match_date # <<>> /\ match_date # PLACEHOLDER_DATE
    THEN SeasonOfFields(Fields3(match_date, "-"), now)
  ELSE SeasonFrom(now[1])

SeasonOf(match_date, params, now) ==
  IF ParamsTruthy(params) /\ ParamsGet(params, <<"S", "E", "A", "S", "O", "N">>) # <<>>
    THEN ParamsGet(params, <<"S", "E", "A", "S", "O", "N">>)
  ELSE IF match_date # <<>> /\ match_date # PLACEHOLDER_DATE
    THEN SeasonOfFields(Fields3(match_date, "-"), now)
  ELSE SeasonFrom(now[1])

\* ----------------------------------------------------------------- inputs

Node(cls, txt) == [cls |-> cls, txt |-> txt]

\* "Arsenal | Chelsea | 1 | 0 | 10.12": the delimited form, the date without
\* its year
PlainElement ==
  [nodes |-> << Node("text", <<"A", "r", "s", "e", "n", "a", "l">>), Node("text", <<"C", "h", "e", "l", "s", "e", "a">>), Node("text", <<"1">>),
                Node("text", <<"0">>), Node("text", <<"1", "0", ".", "1", "2">>) >>,
   parent |-> <<>>]

\* Participant, score and time elements; the two names differ in case only;
\* the date is the first day of the league-phase window.
SameNameElement ==
  [nodes |-> << Node("participant", <<"P", "S", "G">>), Node("participant", <<"p", "s", "g">>),
                Node("score", <<"2", ":", "1">>), Node("time", <<"1", "7", ".", "0", "9", ".", "2", "0", "2", "4">>) >>,
   parent |-> <<>>]

\* A national team as the away side.
NationalElement ==
  [nodes |-> << Node("text", <<"R", "e", "a", "l", " ", "M", "a", "d", "r", "i", "d">>), Node("text", <<"E", "n", "g", "l", "a", "n", "d">>), Node("text", <<"3">>),
                Node("text", <<"1">>), Node("text", <<"0", "5", ".", "0", "3", ".", "2", "0", "2", "5">>) >>,
   parent |-> <<>>]

\* No date anywhere in the element.
UndatedElement ==
  [nodes |-> << Node("text", <<"A", "t", "h", " ", "B", "i", "l", "b", "a", "o">>), Node("text", <<"P", "S", "G">>), Node("text", <<"0">>),
                Node("text", <<"0">>) >>,
   parent |-> <<>>]

\* The placeholder date, written out.
PlaceholderElement ==
  [nodes |-> << Node("text", <<"B", "a", "y", "e", "r", "n", " ", "M", "u", "n", "i", "c", "h">>), Node("text", <<"I", "n", "t", "e", "r">>), Node("text", <<"2">>),
                Node("text", <<"2">>), Node("text", <<"1", ".", "1", ".", "2", "0", "2", "4">>) >>,
   parent |-> <<>>]

\* A day its month does not have.
NoSuchDayElement ==
  [nodes |-> << Node("text", <<"L", "y", "o", "n">>), Node("text", <<"P", "o", "r", "t", "o">>), Node("text", <<"1">>),
                Node("text", <<"1">>), Node("text", <<"3", "1", ".", "0", "2", ".", "2", "0", "2", "5">>) >>,
   parent |-> <<>>]

\* A round label under the parent that is no key of phase_mapping; the date
\* is the last day of the league-phase window.
RoundElement ==
  [nodes |-> << Node("participant", <<"C", "e", "l", "t", "i", "c">>), Node("participant", <<"A", "j", "a", "x">>),
                Node("text", <<"0">>), Node("text", <<"1">>), Node("time", <<"2", "9", ".", "0", "1", ".", "2", "0", "2", "5">>) >>,
   parent |-> << Node("stage", <<"R", "o", "u", "n", "d", " ", "3">>) >>]

\* One text node only: no two team names for the element extractor, a match
\* of score_pattern in the page text.
LineElement ==
  [nodes |-> << Node("text", <<"M", "i", "l", "a", "n", " ", "1", " ", ":", " ", "0", " ", "M", "i", "l", "a", "n">>) >>, parent |-> <<>>]

Catalogue ==
  { PlainElement, SameNameElement, NationalElement, UndatedElement, PlaceholderElement,
    NoSuchDayElement, RoundElement, LineElement }

\* The most elements a page holds.
MaxElements == 2

\* The pages: the sequences of at most MaxElements elements of the catalogue.
Pages == UNION {[1..n -> Catalogue] : n \in 0..MaxElements}

\* The processing dates, datetime.now().
Nows == { <<2024, 12, 5>>, <<2025, 1, 20>> }

SeasonOnly == [isNone |-> FALSE, dict |-> [k \in {<<"S", "E", "A", "S", "O", "N">>} |-> <<"2", "0", "2", "4", "/", "2", "0", "2", "5">>]]

\* SEASON and, for every competition, the league phase from 2024-09-17 to
\* 2025-01-29.
WithWindows ==
  [isNone |-> FALSE,
   dict |-> [k \in {<<"S", "E", "A", "S", "O", "N">>} \cup
                    { COMPETITIONS[c] \o suffix :
                        c \in 1..Len(COMPETITIONS),
                        suffix \in {<<"_", "L", "E", "A", "G", "U", "E", "_", "P", "H", "A", "S", "E", "_", "I", "N", "I", "T", "I", "A", "L", "_", "D", "A", "T", "E">>, <<"_", "L", "E", "A", "G", "U", "E", "_", "P", "H", "A", "S", "E", "_", "E", "N", "D", "_", "D", "A", "T", "E">>} } |->
               IF k = <<"S", "E", "A", "S", "O", "N">> THEN <<"2", "0", "2", "4", "/", "2", "0", "2", "5">>
               ELSE IF Contains(<<"I", "N", "I", "T", "I", "A", "L">>, k) THEN <<"2", "0", "2", "4", "-", "0", "9", "-", "1", "7">> ELSE <<"2", "0", "2", "5", "-", "0", "1", "-", "2", "9">>]]

\* The page of a competition for fetch_all_competitions: not got (the driver
\* raises), or got with its match elements.
FetchPages ==
  {[reachable |-> FALSE, elements |-> <<>>]}
  \cup {[reachable |-> TRUE, elements |-> e] :
          e \in {<<>>, <<RoundElement, UndatedElement>>, <<NationalElement, PlainElement>>}}

\* A Selenium element (it has no find_all) that is no longer attached to the
\* page: its get_attribute raises.
StaleElement == [nodes |-> <<>>, parent |-> <<>>, stale |-> TRUE]

\* The pages handed to extract_matches_from_flashscore_elements on its own: at
\* most MaxElements + 1 elements, stale ones among them.
ElementPages ==
  UNION {[1..n -> {StaleElement, PlainElement, UndatedElement, RoundElement}] :
           n \in 0..(MaxElements + 1)}

\* The fragment "Ath Bilbao | PSG | 0 | 0 | 10.12".
ShortDateElement ==
  [nodes |-> << Node("text", <<"A", "t", "h", " ", "B", "i", "l", "b", "a", "o">>), Node("text", <<"P", "S", "G">>), Node("text", <<"0">>),
                Node("text", <<"0">>), Node("text", <<"1", "0", ".", "1", "2">>) >>,
   parent |-> <<>>]

\* No label; the date, with its year, is in the knockout window of UCL and
\* before that of UEL.
KnockoutElement ==
  [nodes |-> << Node("text", <<"B", "e", "n", "f", "i", "c", "a">>), Node("text", <<"M", "o", "n", "a", "c", "o">>), Node("text", <<"2">>),
                Node("text", <<"0">>), Node("text", <<"1", "8", ".", "0", "2", ".", "2", "0", "2", "5">>) >>,
   parent |-> <<>>]

\* A label that holds no key of phase_mapping and whose upper case is UNKNOWN.
UnknownLabelElement ==
  [nodes |-> << Node("participant", <<"J", "u", "v", "e", "n", "t", "u", "s">>), Node("participant", <<"B", "r", "u", "g", "g", "e">>),
                Node("text", <<"1">>), Node("text", <<"1">>), Node("time", <<"1", "8", ".", "0", "2", ".", "2", "0", "2", "5">>),
                Node("stage", <<"U", "n", "k", "n", "o", "w", "n">>) >>,
   parent |-> <<>>]

\* A labelled fragment of a national team.
LabelledNationalElement ==
  [nodes |-> << Node("participant", <<"F", "r", "a", "n", "c", "e">>), Node("participant", <<"L", "i", "l", "l", "e">>),
                Node("text", <<"2">>), Node("text", <<"1">>), Node("time", <<"3", "0", ".", "0", "5", ".", "2", "0", "2", "5">>),
                Node("stage", <<"F", "i", "n", "a", "l">>) >>,
   parent |-> <<>>]

\* The last day of June: the season that ends in 2024.
JuneElement ==
  [nodes |-> << Node("text", <<"S", "e", "v", "i", "l", "l", "a">>), Node("text", <<"R", "o", "m", "a">>), Node("text", <<"1">>),
                Node("text", <<"1">>), Node("text", <<"3", "0", ".", "0", "6", ".", "2", "0", "2", "4">>) >>,
   parent |-> <<>>]

\* The first day of July: the season that starts in 2025.
JulyElement ==
  [nodes |-> << Node("text", <<"B", "r", "a", "g", "a">>), Node("text", <<"R", "a", "n", "g", "e", "r", "s">>), Node("text", <<"3">>),
                Node("text", <<"2">>), Node("text", <<"1", ".", "7", ".", "2", "0", "2", "5">>) >>,
   parent |-> <<>>]

\* A result written on one line and closed by a full stop: no teams for the
\* element extractor, a score pattern for the alternative extraction.
DottedLineElement ==
  [nodes |-> << Node("text", <<"M", "i", "l", "a", "n", " ", "1", " ", ":", " ", "0", " ", "I", "n", "t", "e", "r", ".">>) >>, parent |-> <<>>]

\* Two teams and no score: "Porto | Lyon | Postponed".
PostponedElement ==
  [nodes |-> << Node("text", <<"P", "o", "r", "t", "o">>), Node("text", <<"L", "y", "o", "n">>), Node("text", <<"P", "o", "s", "t", "p", "o", "n", "e", "d">>) >>,
   parent |-> <<>>]

\* The fragments of the pages.
Fragments ==
  Catalogue \cup {KnockoutElement, UnknownLabelElement, LabelledNationalElement,
                  JuneElement, JulyElement, DottedLineElement,
                  PostponedElement}

\* Pages of results the element extractor accepts and of results only the
\* alternative extraction finds: at most MaxElements + 1 of them.
LimitPages ==
  UNION {[1..n -> {PlainElement, RoundElement, NationalElement, DottedLineElement}] :
           n \in 0..(MaxElements + 1)}

\* The league-phase window of every competition, and no SEASON.
WindowsOnly ==
  [isNone |-> FALSE,
   dict |-> [k \in DOMAIN WithWindows.dict \ {<<"S", "E", "A", "S", "O", "N">>} |-> WithWindows.dict[k]]]

\* Pages of at most MaxElements fragments dated in three seasons, or undated.
SeasonPages ==
  UNION {[1..n -> {PlainElement, KnockoutElement, JuneElement, JulyElement, UndatedElement,
                   NoSuchDayElement}] : n \in 0..MaxElements}

\* Pages of fragments with and without a label, with and without a date, of
\* clubs and of national teams: at most MaxElements + 1 of them.
LabelPages ==
  UNION {[1..n -> {RoundElement, PlainElement, UndatedElement, NationalElement, KnockoutElement,
                   UnknownLabelElement, LabelledNationalElement}] :
           n \in 0..(MaxElements + 1)}

\* Pages with a fragment for every counter of the loop: accepted, of a
\* national team, without teams, without score, and stale; at most
\* MaxElements + 1 of them.
CountPages ==
  UNION {[1..n -> {StaleElement, PlainElement, NationalElement, LineElement, PostponedElement}] :
           n \in 0..(MaxElements + 1)}

\* --------------------------- extract_matches_from_flashscore_elements

\* A record whose identifier is computed with the two teams exchanged.
IdOfTeamsExchanged(competition_code, season, phase, match_date, home_team, away_team, home_goals, away_goals) ==
  [MATCH_ID |-> GenerateMatchId(competition_code, season, phase, away_team, home_team, match_date),
   COMPETITION |-> competition_code,
   SEASON |-> season,
   PHASE |-> phase,
   MATCH_DATE |-> match_date,
   HOME_TEAM |-> home_team,
   AWAY_TEAM |-> away_team,
   HOME_GOALS |-> home_goals,
   AWAY_GOALS |-> away_goals]

Record(competition_code, season, phase, match_date, home_team, away_team, home_goals, away_goals) ==
  [MATCH_ID |-> GenerateMatchId(competition_code, season, phase, home_team, away_team, match_date),
   COMPETITION |-> competition_code,
   SEASON |-> season,
   PHASE |-> phase,
   MATCH_DATE |-> match_date,
   HOME_TEAM |-> home_team,
   AWAY_TEAM |-> away_team,
   HOME_GOALS |-> home_goals,
   AWAY_GOALS |-> away_goals]

\* The locals of the function before its loop (lines 716-724).
LoopStart ==
  [matches |-> <<>>, current_date |-> <<>>, current_phase |-> UNKNOWN,
   successful |-> 0, failed |-> 0, no_score |-> 0, no_teams |-> 0, stop |-> FALSE]

\* The test of line 1052 on the home team alone
HomeClubOnly(home_team, away_team) == IsClubTeam(home_team)

\* "Only add if both teams are clubs" (line 1052)
BothClubs(home_team, away_team) == IsClubTeam(home_team) /\ IsClubTeam(away_team)

\* The test of line 1054 without the placeholder date
NoDateOnly(match_date) == match_date = <<>>

\* "Check if date is valid before filtering" (line 1054)
InvalidDate(match_date) == match_date = <<>> \/ match_date = PLACEHOLDER_DATE

\* "Filter by date range if params provided" (lines 1061-1063)
OutOfRange(match_date, competition_code, params) ==
  ParamsTruthy(params) /\ ~IsMatchInLeaguePhase(match_date, competition_code, params)

\* The processing date, whatever is carried
ProcessingDate(current_date, now) == Strftime(now)

\* The fallback of the date (lines 1002-1008): the date carried from an
\* earlier element, else the processing date.
FallbackDate(current_date, now) ==
  IF current_date # <<>> THEN current_date ELSE Strftime(now)

\* "if limit and len(matches) >= limit: break" (line 1087)
LimitReached(matches, limit) == limit # 0 /\ Len(matches) >= limit

\* What the loop body recovers from the element alone (lines 746-1000 and
\* 1012-1019), before any local of the loop enters.
Recover(element, now) ==
  [teams |-> ExtractTeams(element), score |-> ExtractScore(element),
   date |-> ExtractDate(element, now), phase_text |-> PhaseText(element)]

\* Recover for the fragments of the pages and the processing dates,
\* evaluated once.
RecoverTable ==
  {[element |-> e, now |-> n, parts |-> Recover(e, n)] : e \in Fragments, n \in Nows}

Lookup(known, element, now) ==
  IF known # {} THEN (CHOOSE r \in known : TRUE).parts ELSE Recover(element, now)

Recovered(element, now) ==
  Lookup({r \in RecoverTable : r.element = element /\ r.now = now}, element, now)

\* Lines 1073-1083 without line 1085: the record appended and not counted
AcceptUncounted(st, record, limit) ==
  [st EXCEPT !.matches = Append(@, record),
             !.stop = LimitReached(Append(st.matches, record), limit)]

\* Lines 1070-1088: the record appended, the loop left at the limit
Accept(st, record, limit) ==
  [st EXCEPT !.matches = Append(@, record), !.successful = @ + 1,
             !.stop = LimitReached(Append(st.matches, record), limit)]

\* Lines 1052-1090: the checks a fragment passes before its record is built
Decide(st, teams, score, match_date, season, phase, competition_code, limit, params) ==
  IF ~BothClubs(teams.home, teams.away) THEN [st EXCEPT !.failed = @ + 1]
  ELSE IF InvalidDate(match_date) THEN [st EXCEPT !.failed = @ + 1]
  ELSE IF OutOfRange(match_date, competition_code, params) THEN [st EXCEPT !.failed = @ + 1]
  ELSE Accept(st, Record(competition_code, season, phase, match_date,
                         teams.home, teams.away, score.home_goals, score.away_goals),
              limit)

\* The phase carried where there is one, else the phase of the label
CarriedBeforeLabel(phase_text, current_phase) ==
  IF current_phase # UNKNOWN THEN current_phase
  ELSE IF phase_text # <<>> THEN NormalizePhase(phase_text) ELSE current_phase

\* Lines 1011-1022: the phase of the label, else the phase carried
LabelledPhase(phase_text, current_phase) ==
  IF phase_text # <<>> THEN NormalizePhase(phase_text) ELSE current_phase

\* Lines 1043-1045
InferredOr(inferred_phase, phase) == IF inferred_phase # UNKNOWN THEN inferred_phase ELSE phase

\* Lines 1040-1045: a phase still unknown is inferred from the date
PhaseOf(phase, match_date, competition_code, season) ==
  IF phase = UNKNOWN /\ match_date # <<>> /\ match_date # PLACEHOLDER_DATE
  THEN InferredOr(InferPhaseFromDate(competition_code, match_date, season), phase)
  ELSE phase

\* Lines 1040-1090 with the phase settled: it is carried on whatever follows
WithPhase(st, parts, match_date, season, phase, competition_code, limit, params) ==
  Decide([st EXCEPT !.current_phase = phase], parts.teams, parts.score, match_date, season,
         phase, competition_code, limit, params)

\* Lines 1010-1090 with the season settled
WithSeason(st, parts, match_date, season, competition_code, limit, params) ==
  WithPhase(st, parts, match_date, season,
            PhaseOf(LabelledPhase(parts.phase_text, st.current_phase), match_date,
                    competition_code, season),
            competition_code, limit, params)

\* Lines 1010-1090 with the date settled
WithDate(st, parts, match_date, competition_code, limit, params, now) ==
  WithSeason(st, parts, match_date, SeasonOf(match_date, params, now), competition_code,
             limit, params)

\* The loop body from what Recover gives: the counters of the fragments
\* without teams or score (lines 821-825, 849-858, 900-904), the date found
\* carried on (lines 924, 947, 967, 976, 998), else the fallback.
ProcessRecovered(parts, st, competition_code, limit, params, now) ==
  IF ~parts.teams.found THEN [st EXCEPT !.no_teams = @ + 1]
  ELSE IF ~parts.score.found THEN [st EXCEPT !.no_score = @ + 1]
  ELSE IF parts.date # <<>>
    THEN WithDate([st EXCEPT !.current_date = parts.date], parts, parts.date,
                  competition_code, limit, params, now)
  ELSE WithDate(st, parts, FallbackDate(st.current_date, now), competition_code, limit,
                params, now)

\* element.get_attribute('outerHTML') raises (line 742).
Raises(element) == "stale" \in DOMAIN element

\* The loop body with an exception of get_attribute ending the loop.
ExceptionEndsLoop(element, st, competition_code, limit, params, now) ==
  IF Raises(element) THEN [st EXCEPT !.stop = TRUE]
  ELSE ProcessRecovered(Recovered(element, now), st, competition_code, limit, params, now)

\* One pass of the loop body (lines 734-1102) over element, from the locals
\* st to the locals after it; stop is set where the loop breaks.  limit = 0
\* stands for None.  An exception within the body is counted as a failure
\* (lines 1098-1102).
ProcessElement(element, st, competition_code, limit, params, now) ==
  IF Raises(element) THEN [st EXCEPT !.failed = @ + 1]
  ELSE ProcessRecovered(Recovered(element, now), st, competition_code, limit, params, now)

RECURSIVE RunLoop(_, _, _, _, _, _)
\* The locals after the loop has run over elements from the locals st.
RunLoop(elements, st, competition_code, limit, params, now) ==
  IF elements = <<>> \/ st.stop THEN st
  ELSE RunLoop(Tail(elements),
               ProcessElement(Head(elements), st, competition_code, limit, params, now),
               competition_code, limit, params, now)

\* ------------------------------------ extract_matches_from_html_structure

\* [A-Za-z\s]
AlphaOrSpace(c) == IsAlpha(c) \/ IsSpace(c)

NoAlt == [found |-> FALSE, home |-> <<>>, home_goals |-> 0, away_goals |-> 0, away |-> <<>>, last |-> 0]

\* score_pattern, ([A-Za-z\s]+?)\s+(\d+)\s*:\s*(\d+)\s+([A-Za-z\s]+), matched
\* at position i of s: the groups and the position of the match's last
\* character.
MatchScorePattern(s, i) ==
  LET \* the first character from i on that is neither a letter nor a blank
      p == SetMin({Len(s) + 1} \cup {k \in i..Len(s) : ~AlphaOrSpace(s[k])})
      \* the lazy first group ends as early as leaves only blanks before p
      inner == {k \in i..(p - 1) : ~IsSpace(s[k])}
      j == IF inner = {} THEN i ELSE SetMax(inner)
      d1 == DigitRunEnd(s, p)
      colon == SkipSpaces(s, d1 + 1)
      a == SkipSpaces(s, colon + 1)
      d2 == DigitRunEnd(s, a)
      \* the blanks after the second number, and the greedy last group
      w == SkipSpaces(s, d2 + 1) - 1
      e == SetMax({w} \cup {k \in (w + 1)..Len(s) : \A n \in (w + 1)..k : AlphaOrSpace(s[n])})
  IN IF /\ i >= 1 /\ i <= Len(s) /\ AlphaOrSpace(s[i])
        /\ CharAt(s, p, Digits) /\ j < p - 1 /\ IsSpace(s[p - 1])
        /\ CharAt(s, colon, {":"}) /\ CharAt(s, a, Digits)
        /\ CharAt(s, d2 + 1, {" "})
     THEN IF e > w
          THEN [found |-> TRUE, home |-> SubSeq(s, i, j), home_goals |-> ToInt(SubSeq(s, p, d1)),
                away_goals |-> ToInt(SubSeq(s, a, d2)), away |-> SubSeq(s, w + 1, e), last |-> e]
          ELSE IF w > d2 + 1
          THEN \* the blanks give their last one to the last group
               [found |-> TRUE, home |-> SubSeq(s, i, j), home_goals |-> ToInt(SubSeq(s, p, d1)),
                away_goals |-> ToInt(SubSeq(s, a, d2)), away |-> <<" ">>, last |-> w]
          ELSE NoAlt
     ELSE NoAlt

RECURSIVE FindScorePatterns(_, _)
FoundFrom(s, m) == <<m>> \o FindScorePatterns(s, m.last + 1)

FirstFrom(s, starts) ==
  IF starts = {} THEN <<>> ELSE FoundFrom(s, MatchScorePattern(s, SetMin(starts)))

\* score_pattern.finditer(s) from position from on
FindScorePatterns(s, from) ==
  FirstFrom(s, {i \in from..Len(s) : MatchScorePattern(s, i).found})

RECURSIVE AltRecords(_, _, _)
\* The records extract_matches_from_html_structure builds from the matches
\* of score_pattern, at processing date now.
AltRecords(found, competition_code, now) ==
  IF found = <<>> THEN <<>>
  ELSE LET m == Head(found)
           home_team == Strip(m.home)
           away_team == Strip(m.away)
           match_date == Strftime(now)
           season == IntToStr(now[1] - 1) \o <<"/">> \o IntToStr(now[1])
           phase == InferPhaseFromDate(competition_code, match_date, season)
       IN (IF Len(home_team) > 2 /\ Len(away_team) > 2 /\ BothClubs(home_team, away_team)
           THEN <<Record(competition_code, season, phase, match_date,
                         home_team, away_team, m.home_goals, m.away_goals)>>
           ELSE <<>>)
          \o AltRecords(Tail(found), competition_code, now)

RECURSIVE NodeText(_)
\* The text of nodes as it stands in the document, nothing between them.
NodeText(nodes) ==
  IF nodes = <<>> THEN <<>> ELSE Head(nodes).txt \o NodeText(Tail(nodes))

RECURSIVE PageText(_)
\* soup.get_text() of the page the elements are taken from: every element
\* lies in a parent of its own, after the parent's other nodes.
PageText(elements) ==
  IF elements = <<>> THEN <<>>
  ELSE NodeText(Head(elements).parent) \o NodeText(Head(elements).nodes)
       \o PageText(Tail(elements))

ExtractMatchesFromHtmlStructure(elements, competition_code, now) ==
  AltRecords(FindScorePatterns(PageText(elements), 1), competition_code, now)

\* ------------------------------------------------- fetch_all_competitions

\* ord(c) of the characters a date text holds, "-" before the digits
CharOrd(c) == IF c \in Digits THEN DigitVal(c) + 1 ELSE 0

RECURSIVE StrLT(_, _)
\* a < b of two texts
StrLT(a, b) ==
  IF b = <<>> THEN FALSE
  ELSE IF a = <<>> THEN TRUE
  ELSE IF Head(a) # Head(b) THEN CharOrd(Head(a)) < CharOrd(Head(b))
  ELSE StrLT(Tail(a), Tail(b))

\* The records as they come, not sorted.
ExtractionOrder(records) == records

RECURSIVE SortByDateDesc(_)
\* list.sort(key=MATCH_DATE, reverse=True): descending, and stable
SortByDateDesc(records) ==
  IF records = <<>> THEN <<>>
  ELSE LET front == SortByDateDesc(SubSeq(records, 1, Len(records) - 1))
           last == records[Len(records)]
           before == {i \in 1..Len(front) : ~StrLT(front[i].MATCH_DATE, last.MATCH_DATE)}
           n == Cardinality(before)
       IN SubSeq(front, 1, n) \o <<last>> \o SubSeq(front, n + 1, Len(front))

\* "Final filter to ensure only club teams" (lines 1285-1288)
RECURSIVE ClubMatches(_)
ClubMatches(records) ==
  IF records = <<>> THEN <<>>
  ELSE (IF IsClubTeam(Head(records).HOME_TEAM) /\ IsClubTeam(Head(records).AWAY_TEAM)
        THEN <<Head(records)>> ELSE <<>>)
       \o ClubMatches(Tail(records))

\* ------------------------------------------------------------------ state

VARIABLES
  elements,          \* the match elements of the page, in document order
  competition_code,
  limit,             \* 0 for None
  params,
  run_date,          \* the processing date, datetime.now() of the run
  pc,                \* "loop", "returned", "scraped", "done"
  idx,               \* the element the loop is at
  matches,
  current_date,
  current_phase,
  successful,
  failed,
  no_score,
  no_teams,
  club_matches,      \* all_matches_by_competition[competition_code]
  calls,             \* the latest calls of a function called on its own
  params_file,       \* PARAMS/scraper_params.json as load_scraper_params finds it
  pages,             \* the page of each competition as the driver gets it
  all_matches_by_competition,
  workers            \* two threads, each calling the element extractor

vars ==
  << elements, competition_code, limit, params, run_date, pc, idx, matches, current_date,
     current_phase, successful, failed, no_score, no_teams, club_matches, calls, params_file, pages,
     all_matches_by_competition, workers >>

inputs == << elements, competition_code, limit, params, run_date >>

\* What no step of a competition's extraction touches.
outside == << calls, params_file, pages, all_matches_by_competition, workers >>

\* No file is read, no page is got, nothing is stored, no thread runs.
NoFetch ==
  /\ params_file = [kind |-> "unused"]
  /\ pages = <<>>
  /\ all_matches_by_competition = <<>>
  /\ workers = <<>>

Locals ==
  [matches |-> matches, current_date |-> current_date, current_phase |-> current_phase,
   successful |-> successful, failed |-> failed, no_score |-> no_score,
   no_teams |-> no_teams, stop |-> FALSE]

Init ==
  /\ elements \in Pages
  /\ competition_code \in {COMPETITIONS[c] : c \in 1..Len(COMPETITIONS)}
  /\ limit \in {0, 1}
  /\ params \in {NoParams, SeasonOnly, WithWindows}
  /\ run_date \in Nows
  /\ pc = "loop"
  /\ idx = 1
  /\ matches = LoopStart.matches
  /\ current_date = LoopStart.current_date
  /\ current_phase = LoopStart.current_phase
  /\ successful = LoopStart.successful
  /\ failed = LoopStart.failed
  /\ no_score = LoopStart.no_score
  /\ no_teams = LoopStart.no_teams
  /\ club_matches = <<>>
  /\ calls = <<>>
  /\ NoFetch

\* One pass of the loop of extract_matches_from_flashscore_elements.
ExtractStep ==
  /\ pc = "loop"
  /\ idx <= Len(elements)
  /\ LET after == ProcessElement(elements[idx], Locals, competition_code, limit, params, run_date)
     IN /\ matches' = after.matches
        /\ current_date' = after.current_date
        /\ current_phase' = after.current_phase
        /\ successful' = after.successful
        /\ failed' = after.failed
        /\ no_score' = after.no_score
        /\ no_teams' = after.no_teams
        /\ pc' = IF after.stop THEN "returned" ELSE "loop"
  /\ idx' = idx + 1
  /\ UNCHANGED << inputs, outside, club_matches >>

\* The loop has run over every element: the function returns matches.
ExtractReturn ==
  /\ pc = "loop"
  /\ idx > Len(elements)
  /\ pc' = "returned"
  /\ UNCHANGED << inputs, outside, idx, matches, current_date, current_phase, successful, failed,
                  no_score, no_teams, club_matches >>

\* scrape_flashscore_competition after the extraction (lines 684-696): with no
\* match, the alternative extraction of the whole page.
ScrapeReturn ==
  /\ pc = "returned"
  /\ matches' = IF matches = <<>>
                THEN ExtractMatchesFromHtmlStructure(elements, competition_code, run_date)
                ELSE matches
  /\ pc' = "scraped"
  /\ UNCHANGED << inputs, outside, idx, current_date, current_phase, successful, failed, no_score,
                  no_teams, club_matches >>

\* fetch_all_competitions for the competition (lines 1282-1293): the club
\* filter and the sort.
FetchCompetition ==
  /\ pc = "scraped"
  /\ club_matches' = SortByDateDesc(ClubMatches(matches))
  /\ pc' = "done"
  /\ UNCHANGED << inputs, outside, idx, matches, current_date, current_phase, successful, failed,
                  no_score, no_teams >>

Next == ExtractStep \/ ExtractReturn \/ ScrapeReturn \/ FetchCompetition

Spec == Init /\ [][Next]_vars

\* ------------------------------------------- functions called on their own

\* The variables of a competition's run, when no run is under way.
run == << elements, competition_code, limit, params, pc, idx, matches, current_date,
         current_phase, successful, failed, no_score, no_teams, club_matches >>

NoRun ==
  /\ elements = <<>>
  /\ competition_code = <<>>
  /\ limit = 0
  /\ params = NoParams
  /\ pc = "idle"
  /\ idx = 1
  /\ matches = <<>>
  /\ current_date = <<>>
  /\ current_phase = UNKNOWN
  /\ successful = 0
  /\ failed = 0
  /\ no_score = 0
  /\ no_teams = 0
  /\ club_matches = <<>>

\* calls after one more call: the call before it and the call itself.
Called(fn, args, result) ==
  LET c == [fn |-> fn, args |-> args, result |-> result]
  IN IF calls = <<>> THEN <<c>> ELSE <<calls[Len(calls)], c>>

GenerateMatchIdInit ==
  /\ NoRun
  /\ NoFetch
  /\ run_date = <<2024, 12, 5>>
  /\ calls = <<>>

\* A call of generate_match_id, with two values or more for each of its six
\* arguments, the two home teams of EqualDigestTexts among them.
CallGenerateMatchId ==
  /\ \E competition \in { <<"U", "C", "L">>, <<"U", "E", "L">> },
        season \in { <<"2", "0", "2", "4", "/", "2", "0", "2", "5">>, <<"2", "0", "2", "3", "/", "2", "0", "2", "4">> },
        phase \in { <<"L", "E", "A", "G", "U", "E", "_", "P", "H", "A", "S", "E">>, <<"F", "I", "N", "A", "L">> },
        home_team \in { <<"F", "C", " ", "T", "e", "a", "m", " ", "5", "7", "5", "1", "0">>, <<"F", "C", " ", "T", "e", "a", "m", " ", "9", "0", "3", "8", "7">>, <<"P", "S", "G">> },
        away_team \in { <<"P", "S", "G">>, <<"F", "C", " ", "T", "e", "a", "m", " ", "5", "7", "5", "1", "0">> },
        match_date \in { <<"2", "0", "2", "4", "-", "1", "2", "-", "1", "0">>, <<"2", "0", "2", "4", "-", "1", "2", "-", "1", "1">> } :
       calls' = Called("generate_match_id",
                       <<competition, season, phase, home_team, away_team, match_date>>,
                       GenerateMatchId(competition, season, phase, home_team, away_team, match_date))
  /\ UNCHANGED << run, run_date, params_file, pages, all_matches_by_competition, workers >>

GenerateMatchIdSpec == GenerateMatchIdInit /\ [][CallGenerateMatchId]_vars

\* s with its first letter in upper case.
Capitalized(s) == <<UpperChar(Head(s))>> \o Tail(s)

\* The names is_club_team is called with: the bare country names, names of
\* clubs, names with a national-team phrase, and names of fewer than three
\* characters.
TeamNames ==
  {Capitalized(c) : c \in COUNTRY_ONLY}
  \cup { <<"R", "e", "a", "l", " ", "M", "a", "d", "r", "i", "d">>, <<"B", "a", "y", "e", "r", "n", " ", "M", "u", "n", "i", "c", "h">>, <<"A", "t", "h", "l", "e", "t", "i", "c", " ", "B", "i", "l", "b", "a", "o">>, <<"A", "t", "h", " ", "B", "i", "l", "b", "a", "o">>, <<"P", "S", "G">>,
         <<"F", "C">>, <<" ", "F", "C", " ">>, <<"a", "b">>, <<"S", "p", "a", "i", "n", " ", "n", "a", "t", "i", "o", "n", "a", "l", " ", "t", "e", "a", "m">>, <<"F", "C", " ", "n", "a", "t", "i", "o", "n", "a", "l", " ", "t", "e", "a", "m">>,
         <<"R", "e", "a", "l", " ", "c", "o", "u", "n", "t", "r", "y", " ", "t", "e", "a", "m">>, <<"E", "n", "g", "l", "a", "n", "d", " ", "F", "C">>, <<"P", "o", "r", "t", "o">>, <<"e", "n", "g", "l", "a", "n", "d">>, <<" ", "S", "c", "o", "t", "l", "a", "n", "d", " ">> }

IsClubTeamInit ==
  /\ NoRun
  /\ NoFetch
  /\ run_date = <<2024, 12, 5>>
  /\ calls = <<>>

\* A call of is_club_team.
CallIsClubTeam ==
  /\ \E team_name \in TeamNames :
       calls' = Called("is_club_team", <<team_name>>, IsClubTeam(team_name))
  /\ UNCHANGED << run, run_date, params_file, pages, all_matches_by_competition, workers >>

IsClubTeamSpec == IsClubTeamInit /\ [][CallIsClubTeam]_vars

\* --------------------------------------------------- fetch_all_competitions

\* The number of competitions fetch_all_competitions has stored an entry of.
Attempted == Cardinality(DOMAIN all_matches_by_competition)

\* Entry of fetch_all_competitions: the params argument, None or a
\* dictionary; the parameters file; the pages of the three competitions.
FetchInit ==
  /\ pc = "fetch"
  /\ params \in {NoParams, WithWindows}
  /\ params_file \in {[kind |-> k] : k \in {"missing", "malformed", "unreadable", "list"}}
                     \cup {[kind |-> "dict", dict |-> d] : d \in {SeasonOnly, WithWindows}}
  /\ pages \in [{COMPETITIONS[c] : c \in 1..Len(COMPETITIONS)} -> FetchPages]
  /\ limit = 0
  /\ run_date \in Nows
  /\ elements = <<>>
  /\ competition_code = <<>>
  /\ idx = 1
  /\ matches = <<>>
  /\ current_date = <<>>
  /\ current_phase = UNKNOWN
  /\ successful = 0
  /\ failed = 0
  /\ no_score = 0
  /\ no_teams = 0
  /\ club_matches = <<>>
  /\ calls = <<>>
  /\ all_matches_by_competition = <<>>
  /\ workers = <<>>

\* Lines 1260-1271 when the run goes on: params was given; or the file holds a
\* dictionary, which becomes params; or open raises an OSError other than
\* FileNotFoundError, or the file holds a list so that params.get raises, and
\* the handler of line 1268 sets params to None.
LoadParams ==
  /\ pc = "fetch"
  /\ (params.isNone => params_file.kind \in {"dict", "unreadable", "list"})
  /\ params' = IF ~params.isNone THEN params
                ELSE IF params_file.kind = "dict" THEN params_file.dict
                ELSE NoParams
  /\ pc' = "next"
  /\ UNCHANGED << elements, competition_code, limit, run_date, idx, matches, current_date,
                  current_phase, successful, failed, no_score, no_teams, club_matches, outside >>

\* load_scraper_params when the file is not found or is no JSON: sys.exit(1)
\* (lines 121-130).  SystemExit is no Exception: the handler of line 1268 does
\* not catch it, and the run ends.
LoadParamsExit ==
  /\ pc = "fetch"
  /\ params.isNone
  /\ params_file.kind \in {"missing", "malformed"}
  /\ pc' = "exited"
  /\ UNCHANGED << inputs, idx, matches, current_date, current_phase, successful, failed,
                  no_score, no_teams, club_matches, outside >>

\* The next competition of the loop of line 1276, its page got: the extraction
\* is entered with its locals as lines 716-724 set them.
EnterExtraction ==
  /\ pc = "next"
  /\ Attempted < Len(COMPETITIONS)
  /\ pages[COMPETITIONS[Attempted + 1]].reachable
  /\ competition_code' = COMPETITIONS[Attempted + 1]
  /\ elements' = pages[COMPETITIONS[Attempted + 1]].elements
  /\ idx' = 1
  /\ matches' = LoopStart.matches
  /\ current_date' = LoopStart.current_date
  /\ current_phase' = LoopStart.current_phase
  /\ successful' = LoopStart.successful
  /\ failed' = LoopStart.failed
  /\ no_score' = LoopStart.no_score
  /\ no_teams' = LoopStart.no_teams
  /\ pc' = "loop"
  /\ UNCHANGED << limit, params, run_date, club_matches, outside >>

\* The next competition, its page not got, and the exception of the driver
\* leaving fetch_all_competitions.
ScrapeRaisesOut ==
  /\ pc = "next"
  /\ Attempted < Len(COMPETITIONS)
  /\ ~pages[COMPETITIONS[Attempted + 1]].reachable
  /\ competition_code' = COMPETITIONS[Attempted + 1]
  /\ pc' = "raised"
  /\ UNCHANGED << elements, limit, params, run_date, idx, matches, current_date,
                  current_phase, successful, failed, no_score, no_teams, club_matches,
                  outside >>

\* The next competition, its page not got: the driver raises within the try
\* of line 488, and scrape_flashscore_competition returns [] (lines 698-702).
ScrapeRaises ==
  /\ pc = "next"
  /\ Attempted < Len(COMPETITIONS)
  /\ ~pages[COMPETITIONS[Attempted + 1]].reachable
  /\ competition_code' = COMPETITIONS[Attempted + 1]
  /\ elements' = <<>>
  /\ matches' = <<>>
  /\ pc' = "scraped"
  /\ UNCHANGED << limit, params, run_date, idx, current_date, current_phase, successful,
                  failed, no_score, no_teams, club_matches, outside >>

\* Line 1293: the entry of the competition.
StoreCompetition ==
  /\ pc = "done"
  /\ all_matches_by_competition' =
       [c \in DOMAIN all_matches_by_competition \cup {competition_code} |->
          IF c = competition_code THEN club_matches ELSE all_matches_by_competition[c]]
  /\ pc' = "next"
  /\ UNCHANGED << inputs, idx, matches, current_date, current_phase, successful, failed,
                  no_score, no_teams, club_matches, calls, params_file, pages, workers >>

\* Line 1305, after the last competition.
FetchReturn ==
  /\ pc = "next"
  /\ Attempted = Len(COMPETITIONS)
  /\ pc' = "fetched"
  /\ UNCHANGED << inputs, idx, matches, current_date, current_phase, successful, failed,
                  no_score, no_teams, club_matches, outside >>

FetchNext ==
  \/ LoadParams \/ LoadParamsExit \/ EnterExtraction \/ ScrapeRaises
  \/ ExtractStep \/ ExtractReturn \/ ScrapeReturn \/ FetchCompetition
  \/ StoreCompetition \/ FetchReturn

FetchSpec == FetchInit /\ [][FetchNext]_vars

\* fetch_all_competitions runs on as long as it has a step to take: weak
\* fairness of FetchNext, WF_vars(FetchNext), with ENABLED <<FetchNext>>_vars
\* written out as the places of the function that have a next step.
FetchLive ==
  FetchSpec /\ (<>[](pc \in {"fetch", "next", "loop", "returned", "scraped", "done"})
                  => []<><<FetchNext>>_vars)

\* ------------------- extract_matches_from_flashscore_elements on its own

ExtractInit ==
  /\ elements \in ElementPages
  /\ competition_code = <<"U", "C", "L">>
  /\ limit \in {0, 1}
  /\ params \in {NoParams, WithWindows}
  /\ run_date = <<2025, 1, 20>>
  /\ pc = "loop"
  /\ idx = 1
  /\ matches = LoopStart.matches
  /\ current_date = LoopStart.current_date
  /\ current_phase = LoopStart.current_phase
  /\ successful = LoopStart.successful
  /\ failed = LoopStart.failed
  /\ no_score = LoopStart.no_score
  /\ no_teams = LoopStart.no_teams
  /\ club_matches = <<>>
  /\ calls = <<>>
  /\ NoFetch

ExtractNext == ExtractStep \/ ExtractReturn

\* The function runs on until it returns: weak fairness of ExtractNext, with
\* ENABLED <<ExtractNext>>_vars written out as pc = "loop".
ExtractLive ==
  ExtractInit /\ [][ExtractNext]_vars /\ (<>[](pc = "loop") => []<><<ExtractNext>>_vars)

\* ------------------------------------- two extractions at the same time

\* The most calls of the element extractor a thread makes.
MaxExtractions == 2

\* The locals of thread t, with the carried date and phase taken from the
\* other thread: what the loop would read were the two kept in one place.
CarriedInOnePlace(t) ==
  [workers[t].st EXCEPT !.current_date = workers[3 - t].st.current_date,
                        !.current_phase = workers[3 - t].st.current_phase]

\* The locals of the call that thread t is in.
LocalsOf(t) == workers[t].st

\* Two threads that have not called the extractor yet; the parameters and
\* the processing date are the same for both.
PairInit ==
  /\ NoRun
  /\ run_date = <<2025, 1, 20>>
  /\ calls = <<>>
  /\ params_file = [kind |-> "unused"]
  /\ pages = <<>>
  /\ all_matches_by_competition = <<>>
  /\ workers = [t \in {1, 2} |->
                  [pc |-> "idle", extractions |-> 0, elements |-> <<>>,
                   competition_code |-> <<>>, idx |-> 1, st |-> LoopStart]]

\* Thread t calls extract_matches_from_flashscore_elements for a competition:
\* the locals are those of lines 716-724.
WorkerEnter(t) ==
  /\ workers[t].pc \in {"idle", "returned"}
  /\ workers[t].extractions < MaxExtractions
  /\ \E code \in { <<"U", "C", "L">>, <<"U", "E", "L">> },
        page \in { <<UndatedElement>>, <<RoundElement, UndatedElement>>,
                   <<PlainElement, UndatedElement>> } :
       workers' = [workers EXCEPT ![t] =
                     [pc |-> "loop", extractions |-> @.extractions + 1, elements |-> page,
                      competition_code |-> code, idx |-> 1, st |-> LoopStart]]
  /\ UNCHANGED << run, run_date, calls, params_file, pages, all_matches_by_competition >>

\* One pass of the loop in thread t.
WorkerStep(t) ==
  /\ workers[t].pc = "loop"
  /\ workers[t].idx <= Len(workers[t].elements)
  /\ LET after == ProcessElement(workers[t].elements[workers[t].idx], LocalsOf(t),
                                 workers[t].competition_code, limit, params, run_date)
     IN workers' = [workers EXCEPT ![t].st = after,
                                   ![t].idx = @ + 1,
                                   ![t].pc = IF after.stop THEN "returned" ELSE "loop"]
  /\ UNCHANGED << run, run_date, calls, params_file, pages, all_matches_by_competition >>

\* The loop of thread t has run over every element.
WorkerReturn(t) ==
  /\ workers[t].pc = "loop"
  /\ workers[t].idx > Len(workers[t].elements)
  /\ workers' = [workers EXCEPT ![t].pc = "returned"]
  /\ UNCHANGED << run, run_date, calls, params_file, pages, all_matches_by_competition >>

PairNext == \E t \in {1, 2} : WorkerEnter(t) \/ WorkerStep(t) \/ WorkerReturn(t)

PairSpec == PairInit /\ [][PairNext]_vars

\* ------------------------------------- a competition's run in December 2024

\* A run for UCL, with the season 2024/2025 in the parameters, over a page of
\* the one fragment "Ath Bilbao | PSG | 0 | 0 | 10.12", on a day of December
\* 2024.
DecemberInit ==
  /\ elements = <<ShortDateElement>>
  /\ competition_code = <<"U", "C", "L">>
  /\ limit \in {0, 1}
  /\ params \in {SeasonOnly, WithWindows}
  /\ run_date \in {<<2024, 12, d>> : d \in 1..31}
  /\ pc = "loop"
  /\ idx = 1
  /\ matches = LoopStart.matches
  /\ current_date = LoopStart.current_date
  /\ current_phase = LoopStart.current_phase
  /\ successful = LoopStart.successful
  /\ failed = LoopStart.failed
  /\ no_score = LoopStart.no_score
  /\ no_teams = LoopStart.no_teams
  /\ club_matches = <<>>
  /\ calls = <<>>
  /\ NoFetch

DecemberSpec == DecemberInit /\ [][Next]_vars

\* ----------------------------------------------------------------- parse_date

\* Texts of a day and a month without a year, as pages write them: bare,
\* padded or not, within blanks, and with the dot after the month that
\* precedes a time of day.
ShortDates ==
  { [text |-> <<"3", "1", ".", "1", "2">>, day |-> 31, month |-> 12],
    [text |-> <<"1", "0", ".", "1", "2">>, day |-> 10, month |-> 12],
    [text |-> <<"1", "0", ".", "1", "2", ".">>, day |-> 10, month |-> 12],
    [text |-> <<"1", "0", ".", "1", "2", ".", " ", "2", "1", ":", "0", "0">>, day |-> 10, month |-> 12],
    [text |-> <<"2", "9", ".", "0", "2">>, day |-> 29, month |-> 2],
    [text |-> <<"1", ".", "1">>, day |-> 1, month |-> 1],
    [text |-> <<"2", "0", ".", "0", "1">>, day |-> 20, month |-> 1],
    [text |-> <<"2", "1", ".", "0", "1">>, day |-> 21, month |-> 1],
    [text |-> <<" ", "9", ".", "3", " ">>, day |-> 9, month |-> 3],
    [text |-> <<"0", "5", ".", "1", "1">>, day |-> 5, month |-> 11] }

\* The processing dates of the calls: days of January, February, March and
\* December, of a leap year and of others.
ParseNows ==
  { <<2025, 1, 20>>, <<2026, 1, 1>>, <<2024, 2, 10>>, <<2025, 3, 1>>,
    <<2024, 12, 5>>, <<2024, 12, 31>> }

ParseDateInit ==
  /\ NoRun
  /\ NoFetch
  /\ run_date \in ParseNows
  /\ calls = <<>>

\* A call of parse_date; datetime.now() is of the day run_date.
CallParseDate ==
  /\ \E t \in ShortDates :
       calls' = Called("parse_date", <<t.text>>, ParseDate(t.text, run_date))
  /\ UNCHANGED << run, run_date, params_file, pages, all_matches_by_competition, workers >>

ParseDateSpec == ParseDateInit /\ [][CallParseDate]_vars

\* ------------------------------------------------------ infer_phase_from_date

\* The first and last days of the windows of the three competitions, the day
\* before and the day after each, and days within and between the windows.
PhaseDays ==
  { <<9, 15>>, <<9, 16>>, <<9, 17>>, <<12, 10>>, <<1, 1>>, <<1, 27>>, <<1, 28>>, <<1, 29>>,
    <<2, 16>>, <<2, 17>>, <<2, 18>>, <<2, 19>>, <<2, 20>>, <<2, 25>>, <<2, 26>>,
    <<3, 9>>, <<3, 10>>, <<3, 11>>, <<3, 12>>, <<3, 18>>, <<3, 19>>, <<3, 20>>,
    <<4, 6>>, <<4, 7>>, <<4, 8>>, <<4, 9>>, <<4, 15>>, <<4, 16>>, <<4, 17>>,
    <<4, 27>>, <<4, 28>>, <<4, 29>>, <<4, 30>>, <<5, 1>>, <<5, 6>>, <<5, 7>>, <<5, 8>>,
    <<5, 19>>, <<5, 20>>, <<5, 21>>, <<5, 26>>, <<5, 27>>, <<5, 28>>,
    <<5, 29>>, <<5, 30>>, <<5, 31>>, <<7, 1>> }

PhaseSeasons == { <<"2", "0", "2", "3", "/", "2", "0", "2", "4">>, <<"2", "0", "2", "4", "/", "2", "0", "2", "5">>, <<"2", "0", "2", "5", "/", "2", "0", "2", "6">> }

InferPhaseInit ==
  /\ NoRun
  /\ NoFetch
  /\ run_date = <<2024, 12, 5>>
  /\ calls = <<>>

\* The call of infer_phase_from_date of a run, for a competition, a day of
\* 2024, 2025 or 2026 and a season; the function reads its arguments only.
CallInferPhaseFromDate ==
  /\ calls = <<>>
  /\ \E c \in 1..Len(COMPETITIONS), y \in 2024..2026, md \in PhaseDays, season \in PhaseSeasons :
       calls' = << [fn |-> "infer_phase_from_date",
                    args |-> <<COMPETITIONS[c], Strftime(<<y, md[1], md[2]>>), season>>,
                    result |-> InferPhaseFromDate(COMPETITIONS[c], Strftime(<<y, md[1], md[2]>>), season)] >>
  /\ UNCHANGED << run, run_date, params_file, pages, all_matches_by_competition, workers >>

InferPhaseSpec == InferPhaseInit /\ [][CallInferPhaseFromDate]_vars

\* ------------------------------------------------------------ normalize_phase

\* Labels of rounds and stages: the keys of the table as they are, labels as
\* pages write them, labels that hold two keys, labels that hold none, and
\* the empty label.
PhaseLabels ==
  { PHASE_MAPPING[k][1] : k \in 1..Len(PHASE_MAPPING) } \cup
  { <<>>, <<" ">>, <<"S", "e", "m", "i", "-", "f", "i", "n", "a", "l", "s">>, <<"Q", "U", "A", "R", "T", "E", "R", "-", "F", "I", "N", "A", "L", "S">>, <<"1", "/", "8", " ", "F", "i", "n", "a", "l", "s">>, <<"1", "/", "4", " ", "F", "i", "n", "a", "l">>, <<"F", "i", "n", "a", "l">>,
    <<"G", "r", "o", "u", "p", " ", "A">>, <<"G", "r", "o", "u", "p", " ", "S", "t", "a", "g", "e">>, <<"R", "o", "u", "n", "d", " ", "3">>, <<"P", "l", "a", "y", " ", "O", "f", "f", "s">>,
    <<"C", "h", "a", "m", "p", "i", "o", "n", "s", " ", "L", "e", "a", "g", "u", "e", " ", "-", " ", "S", "e", "m", "i", "-", "f", "i", "n", "a", "l", "s">>, <<"L", "e", "a", "g", "u", "e", " ", "s", "e", "m", "i", "-", "f", "i", "n", "a", "l">>, <<"Q", "u", "a", "r", "t", "e", "r", "-", "f", "i", "n", "a", "l", " ", "/", " ", "S", "e", "m", "i", "-", "f", "i", "n", "a", "l">>,
    <<"K", "n", "o", "c", "k", "o", "u", "t", " ", "1", "/", "8", " ", "f", "i", "n", "a", "l">>, <<"L", "e", "a", "g", "u", "e", " ", "1", "/", "4", " ", "f", "i", "n", "a", "l">>, <<"E", "u", "r", "o", "p", "a", " ", "L", "e", "a", "g", "u", "e", " ", "-", " ", "F", "i", "n", "a", "l">> }

NormalizePhaseInit ==
  /\ NoRun
  /\ NoFetch
  /\ run_date = <<2024, 12, 5>>
  /\ calls = <<>>

\* A call of normalize_phase.
CallNormalizePhase ==
  /\ \E phase_text \in PhaseLabels :
       calls' = Called("normalize_phase", <<phase_text>>, NormalizePhase(phase_text))
  /\ UNCHANGED << run, run_date, params_file, pages, all_matches_by_competition, workers >>

NormalizePhaseSpec == NormalizePhaseInit /\ [][CallNormalizePhase]_vars

\* ------------------------------------------- the phase and the date carried

\* extract_matches_from_flashscore_elements over a page of LabelPages, for UCL
\* or UEL, without parameters or with the season and the league-phase window.
LabelInit ==
  /\ elements \in LabelPages
  /\ competition_code \in { <<"U", "C", "L">>, <<"U", "E", "L">> }
  /\ limit = 0
  /\ params \in {NoParams, WithWindows}
  /\ run_date = <<2025, 1, 20>>
  /\ pc = "loop"
  /\ idx = 1
  /\ matches = LoopStart.matches
  /\ current_date = LoopStart.current_date
  /\ current_phase = LoopStart.current_phase
  /\ successful = LoopStart.successful
  /\ failed = LoopStart.failed
  /\ no_score = LoopStart.no_score
  /\ no_teams = LoopStart.no_teams
  /\ club_matches = <<>>
  /\ calls = <<>>
  /\ NoFetch

LabelSpec == LabelInit /\ [][ExtractNext]_vars

\* -------------------------------------- the date of a part and parse_date

\* Date-shaped tokens: with a year of four digits, without a year, followed
\* by a dot, with a year of two digits, with other separators, and days that
\* no month has.
DateTokens ==
  { <<"1", "0", ".", "1", "2", ".", "2", "0", "2", "4">>, <<"9", ".", "3", ".", "2", "0", "2", "5">>, <<"1", "7", ".", "0", "9", ".", "2", "0", "2", "4">>, <<"3", "1", ".", "0", "2", ".", "2", "0", "2", "5">>, <<"1", ".", "1", ".", "2", "0", "2", "4">>,
    <<"1", "0", ".", "1", "2">>, <<"3", "1", ".", "1", "2">>, <<"2", "9", ".", "0", "2">>, <<"1", ".", "1">>, <<"0", "5", ".", "1", "1">>, <<"2", "0", ".", "0", "1">>, <<"2", "1", ".", "0", "1">>, <<"3", "1", ".", "0", "4">>,
    <<"1", "0", ".", "1", "2", ".">>, <<"1", "0", ".", "1", "2", ".", " ", "2", "1", ":", "0", "0">>, <<"1", "0", ".", "1", "2", ".", "2", "4">>, <<"1", "0", "/", "1", "2", "/", "2", "0", "2", "4">>, <<"2", "0", "2", "4", "-", "1", "2", "-", "1", "0">> }

DateTokenInit ==
  /\ NoRun
  /\ NoFetch
  /\ run_date \in ParseNows
  /\ calls = <<>>

\* parse_date on a token, and Method 1 of the extractor (lines 914-950) on a
\* part that is the token, at the same datetime.now().
RecoverDateOfToken ==
  /\ calls = <<>>
  /\ \E token \in DateTokens :
       calls' = << [fn |-> "parse_date", args |-> <<token>>, result |-> ParseDate(token, run_date)],
                   [fn |-> "Method 1", args |-> <<token>>, result |-> InlineDate(Strip(token), run_date)] >>
  /\ UNCHANGED << run, run_date, params_file, pages, all_matches_by_competition, workers >>

DateTokenSpec == DateTokenInit /\ [][RecoverDateOfToken]_vars

\* ------------------------------------------------------------------ the season

\* extract_matches_from_flashscore_elements for UCL over a page of
\* SeasonPages, with no parameters, with the season, or with windows only.
SeasonInit ==
  /\ elements \in SeasonPages
  /\ competition_code = <<"U", "C", "L">>
  /\ limit = 0
  /\ params \in {NoParams, SeasonOnly, WindowsOnly}
  /\ run_date \in Nows
  /\ pc = "loop"
  /\ idx = 1
  /\ matches = LoopStart.matches
  /\ current_date = LoopStart.current_date
  /\ current_phase = LoopStart.current_phase
  /\ successful = LoopStart.successful
  /\ failed = LoopStart.failed
  /\ no_score = LoopStart.no_score
  /\ no_teams = LoopStart.no_teams
  /\ club_matches = <<>>
  /\ calls = <<>>
  /\ NoFetch

SeasonSpec == SeasonInit /\ [][ExtractNext]_vars

\* ------------------------------------------- a competition with a limit

LimitInit ==
  /\ elements \in LimitPages
  /\ competition_code = <<"U", "C", "L">>
  /\ limit \in {1, 2}
  /\ params = NoParams
  /\ run_date = <<2025, 1, 20>>
  /\ pc = "loop"
  /\ idx = 1
  /\ matches = LoopStart.matches
  /\ current_date = LoopStart.current_date
  /\ current_phase = LoopStart.current_phase
  /\ successful = LoopStart.successful
  /\ failed = LoopStart.failed
  /\ no_score = LoopStart.no_score
  /\ no_teams = LoopStart.no_teams
  /\ club_matches = <<>>
  /\ calls = <<>>
  /\ NoFetch

\* scrape_flashscore_competition from the extraction of the elements on
\* (lines 681-696).
ScrapeNext == ExtractStep \/ ExtractReturn \/ ScrapeReturn

LimitSpec == LimitInit /\ [][ScrapeNext]_vars

\* ------------------------------------------------ the counters of the loop

CountInit ==
  /\ elements \in CountPages
  /\ competition_code = <<"U", "C", "L">>
  /\ limit \in {0, 1, 2}
  /\ params = NoParams
  /\ run_date = <<2025, 1, 20>>
  /\ pc = "loop"
  /\ idx = 1
  /\ matches = LoopStart.matches
  /\ current_date = LoopStart.current_date
  /\ current_phase = LoopStart.current_phase
  /\ successful = LoopStart.successful
  /\ failed = LoopStart.failed
  /\ no_score = LoopStart.no_score
  /\ no_teams = LoopStart.no_teams
  /\ club_matches = <<>>
  /\ calls = <<>>
  /\ NoFetch

CountSpec == CountInit /\ [][ExtractNext]_vars

\* ------------------------------------------------------------ properties

\* The records a state holds: those of the extraction (matches) and those of
\* the competition's output (club_matches).
Emitted ==
  {matches[i] : i \in DOMAIN matches} \cup {club_matches[i] : i \in DOMAIN club_matches}

\* The loop is about to process elements[idx].
AtElement == pc = "loop" /\ idx <= Len(elements)

\* A page holds element, and the loop has gone past it.
Processed(element) == \E k \in 1..Len(elements) : elements[k] = element /\ idx > k

\* C1: in the final output of a competition's run no two records share their
\* MATCH_ID.
NoSharedMatchId ==
  pc = "done" =>
    \A i, j \in DOMAIN club_matches :
      i # j => club_matches[i].MATCH_ID # club_matches[j].MATCH_ID

\* A team name for the comparison of C2: lower case, no blank at its ends,
\* one blank between its words.
NormalizedName(team) == Join(Words(Lower(team)), <<" ">>)

\* C2: every record of a competition's output has a home team that differs
\* from its away team, compared without case and with blanks normalized.
HomeDiffersFromAway ==
  \A i \in DOMAIN club_matches :
    NormalizedName(club_matches[i].HOME_TEAM) # NormalizedName(club_matches[i].AWAY_TEAM)

\* is_club_team holds of both teams of every record held.
TeamsAreClubs ==
  \A r \in Emitted : IsClubTeam(r.HOME_TEAM) /\ IsClubTeam(r.AWAY_TEAM)

\* The loop processes an element whose two teams were found and of which one
\* is no club: no record is added and the loop goes on to the next element.
NonClubSkipped ==
  (/\ AtElement
   /\ Recovered(elements[idx], run_date).teams.found
   /\ \/ ~IsClubTeam(Recovered(elements[idx], run_date).teams.home)
      \/ ~IsClubTeam(Recovered(elements[idx], run_date).teams.away))
  => (matches' = matches /\ pc' = "loop" /\ idx' = idx + 1)

\* C3: both teams of every record of the output of fetch_all_competitions are
\* clubs by is_club_team, and a fragment with a team that is no club adds no
\* record and does not stop the run.
OutputTeamsAreClubs == [](TeamsAreClubs) /\ [][NonClubSkipped]_vars

\* C3: a run that went past the fragment with a national team, counted it as
\* failed, and gave an output with a record of another fragment.
NationalFragmentSkipped ==
  /\ pc = "done"
  /\ Processed(NationalElement)
  /\ failed >= 1
  /\ club_matches # <<>>

\* C4: no record dated 2024-01-01 is emitted, with or without parameters.
NoPlaceholderDate == \A r \in Emitted : r.MATCH_DATE # <<"2", "0", "2", "4", "-", "0", "1", "-", "0", "1">>

\* C4: a run without window parameters that went past the fragment dated
\* 1.1.2024 and counted it as failed.
PlaceholderFragmentDropped ==
  /\ pc = "returned"
  /\ ~ParamsTruthy(params)
  /\ Processed(PlaceholderElement)
  /\ failed >= 1

\* The two days of the league-phase window of the run's competition, the
\* empty text where the parameters hold none.
WindowStart ==
  IF params.isNone THEN <<>>
  ELSE ParamsGet(params, competition_code \o <<"_", "L", "E", "A", "G", "U", "E", "_", "P", "H", "A", "S", "E", "_", "I", "N", "I", "T", "I", "A", "L", "_", "D", "A", "T", "E">>)

WindowEnd ==
  IF params.isNone THEN <<>>
  ELSE ParamsGet(params, competition_code \o <<"_", "L", "E", "A", "G", "U", "E", "_", "P", "H", "A", "S", "E", "_", "E", "N", "D", "_", "D", "A", "T", "E">>)

HasWindow == WindowStart # <<>> /\ WindowEnd # <<>>

\* The records extract_matches_from_flashscore_elements holds and returns are
\* dated within the window.
ReturnedInWindow ==
  (HasWindow /\ pc \in {"loop", "returned"}) =>
    \A i \in DOMAIN matches :
      /\ StrptimeYMD(matches[i].MATCH_DATE) # NoDate
      /\ DateLE(StrptimeYMD(WindowStart), StrptimeYMD(matches[i].MATCH_DATE))
      /\ DateLE(StrptimeYMD(matches[i].MATCH_DATE), StrptimeYMD(WindowEnd))

\* The date the loop settles for elements[idx]: the one found, else the one
\* carried, else the processing date.
SettledDate ==
  IF Recovered(elements[idx], run_date).date # <<>>
  THEN Recovered(elements[idx], run_date).date
  ELSE IF current_date # <<>> THEN current_date ELSE Strftime(run_date)

\* A candidate of two clubs dated the first or the last day of the window
\* becomes a record.
BoundaryKept ==
  (/\ HasWindow
   /\ AtElement
   /\ Recovered(elements[idx], run_date).teams.found
   /\ Recovered(elements[idx], run_date).score.found
   /\ IsClubTeam(Recovered(elements[idx], run_date).teams.home)
   /\ IsClubTeam(Recovered(elements[idx], run_date).teams.away)
   /\ SettledDate \in {WindowStart, WindowEnd})
  => (/\ Len(matches') = Len(matches) + 1
      /\ matches'[Len(matches')].MATCH_DATE = SettledDate)

\* C5: with both days of the window in the parameters, every record that
\* extract_matches_from_flashscore_elements returns is dated from the first to
\* the last day of the window, and a candidate dated the first or the last day
\* is kept.
WindowIsInclusive == [](ReturnedInWindow) /\ [][BoundaryKept]_vars

\* C5: the extraction has returned, under a window, a record dated its first
\* day and a record dated its last day.
BothBoundariesReturned ==
  /\ pc = "returned"
  /\ HasWindow
  /\ \E i \in DOMAIN matches : matches[i].MATCH_DATE = WindowStart
  /\ \E i \in DOMAIN matches : matches[i].MATCH_DATE = WindowEnd

\* C6: a fragment without a date, processed when no date is carried from an
\* earlier fragment, produces no record.
UndatedYieldsNothing ==
  [][(/\ AtElement
      /\ current_date = <<>>
      /\ Recovered(elements[idx], run_date).date = <<>>)
     => matches' = matches]_vars

\* C7: when the element extractor has accepted nothing, the result of the
\* competition is empty.
NothingAcceptedNothingReturned ==
  (pc \in {"scraped", "done"} /\ successful = 0) =>
     (matches = <<>> /\ club_matches = <<>>)

TenPhases ==
  { <<"L", "E", "A", "G", "U", "E", "_", "P", "H", "A", "S", "E">>, <<"K", "N", "O", "C", "K", "O", "U", "T", "_", "P", "H", "A", "S", "E">>, <<"R", "O", "U", "N", "D", "_", "O", "F", "_", "1", "6">>, <<"Q", "U", "A", "R", "T", "E", "R", "_", "F", "I", "N", "A", "L">>, <<"S", "E", "M", "I", "_", "F", "I", "N", "A", "L">>,
    <<"F", "I", "N", "A", "L">>, <<"P", "L", "A", "Y", "_", "O", "F", "F">>, <<"Q", "U", "A", "L", "I", "F", "Y", "I", "N", "G">>, <<"P", "R", "E", "L", "I", "M", "I", "N", "A", "R", "Y">>, <<"U", "N", "K", "N", "O", "W", "N">> }

\* C8 as stated: the PHASE of every record is one of the ten values.
PhaseIsOneOfTen == \A r \in Emitted : r.PHASE \in TenPhases

\* The phase labels the page holds: the texts of the stage elements of its
\* fragments and of their parents.
StageLabels ==
  UNION { {e.nodes[k].txt : k \in {n \in DOMAIN e.nodes : e.nodes[n].cls = "stage"}}
          \cup {e.parent[k].txt : k \in {n \in DOMAIN e.parent : e.parent[n].cls = "stage"}} :
          e \in {elements[i] : i \in DOMAIN elements} }

SlugAlphabet == UpperSet \cup Digits \cup {"_"}

\* phase is label in upper case, each character outside A-Z, 0-9 and "_"
\* replaced by "_", cut to 30 characters.
IsSlugOf(phase, label) ==
  /\ Len(phase) = (IF Len(label) < 30 THEN Len(label) ELSE 30)
  /\ \A i \in 1..Len(phase) :
       phase[i] = (IF UpperChar(label[i]) \in SlugAlphabet THEN UpperChar(label[i]) ELSE "_")

\* C8, amended: the PHASE of every record is one of the ten values or the
\* slug of a phase label of the page (upper case, "_" for each character
\* outside A-Z, 0-9 and "_", at most 30 characters).
PhaseIsOneOfTenOrSlug ==
  \A r \in Emitted :
    r.PHASE \in TenPhases \/ \E label \in StageLabels : IsSlugOf(r.PHASE, label)

\* C8: the output holds the record of the fragment labelled "Round 3", with
\* PHASE ROUND_3.
RoundLabelEmitted ==
  /\ pc = "done"
  /\ Processed(RoundElement)
  /\ \E i \in DOMAIN club_matches :
       club_matches[i].PHASE = <<"R", "O", "U", "N", "D", "_", "3">> /\ club_matches[i].HOME_TEAM = <<"C", "e", "l", "t", "i", "c">>

\* s is YYYY-MM-DD of a day of the calendar.
IsCalendarDateText(s) ==
  /\ Len(s) = 10
  /\ s[5] = "-" /\ s[8] = "-"
  /\ \A i \in {1, 2, 3, 4, 6, 7, 9, 10} : s[i] \in Digits
  /\ ValidDate(ToInt(SubSeq(s, 1, 4)), ToInt(SubSeq(s, 6, 7)), ToInt(SubSeq(s, 9, 10)))

\* C9: the MATCH_DATE of every record is a day of the calendar written
\* YYYY-MM-DD.
MatchDateIsCalendarDate == \A r \in Emitted : IsCalendarDateText(r.MATCH_DATE)

\* C10: the extraction of the same fragments for the same competition and
\* parameters at another processing date gives each match, fragment by
\* fragment, the MATCH_ID it has in this run.
SameMatchIdAtAnyDate ==
  pc = "returned" =>
    \A other \in Nows :
      \A i \in DOMAIN matches \cap
               DOMAIN RunLoop(elements, LoopStart, competition_code, limit, params, other).matches :
        LET again == RunLoop(elements, LoopStart, competition_code, limit, params, other).matches[i]
        IN (again.HOME_TEAM = matches[i].HOME_TEAM /\ again.AWAY_TEAM = matches[i].AWAY_TEAM)
           => again.MATCH_ID = matches[i].MATCH_ID

\* C11: the MATCH_ID of every record held is what generate_match_id returns
\* for the record's own COMPETITION, SEASON, PHASE, HOME_TEAM, AWAY_TEAM and
\* MATCH_DATE, so that a further call with the same six arguments gives the
\* identifier again.
MatchIdIsOfOwnFields ==
  \A r \in Emitted :
    r.MATCH_ID = GenerateMatchId(r.COMPETITION, r.SEASON, r.PHASE,
                                 r.HOME_TEAM, r.AWAY_TEAM, r.MATCH_DATE)

\* C11: a competition's output holds two records the element extractor
\* accepted, of different teams.
TwoRecordsEmitted ==
  /\ pc = "done"
  /\ successful = 2
  /\ Len(club_matches) = 2
  /\ club_matches[1].HOME_TEAM # club_matches[2].HOME_TEAM

\* Two calls of generate_match_id in calls.
IdCalls ==
  { pair \in (DOMAIN calls) \X (DOMAIN calls) :
      calls[pair[1]].fn = "generate_match_id" /\ calls[pair[2]].fn = "generate_match_id" }

\* a and b differ in exactly one of the six arguments.
DifferInOne(a, b) == Cardinality({k \in 1..6 : a[k] # b[k]}) = 1

\* b is a with home team and away team exchanged, the two being different.
Exchanged(a, b) ==
  /\ a[4] # a[5]
  /\ b = <<a[1], a[2], a[3], a[5], a[4], a[6]>>

HashedText(a) == MatchString(a[1], a[2], a[3], a[4], a[5], a[6])

EmittedDates == {r.MATCH_DATE : r \in Emitted}

\* The records of a competition's output dated d, in their order, are the
\* records of two clubs dated d that the scrape returned, in their order.
SameOrderWithin(d) ==
  LET Dated(r) == r.MATCH_DATE = d
      ClubDated(r) == r.MATCH_DATE = d /\ IsClubTeam(r.HOME_TEAM) /\ IsClubTeam(r.AWAY_TEAM)
  IN SelectSeq(club_matches, Dated) = SelectSeq(matches, ClubDated)

\* C13: the output of a competition is in descending order of MATCH_DATE, and
\* its records of equal MATCH_DATE are in the order of their extraction.
OutputSortedByDateDesc ==
  pc = "done" =>
    /\ \A i, j \in DOMAIN club_matches :
         i < j => ~StrLT(club_matches[i].MATCH_DATE, club_matches[j].MATCH_DATE)
    /\ \A d \in EmittedDates : SameOrderWithin(d)

\* C13: the output holds, the later one first, two records that were
\* extracted the earlier one first.
OutputReordered ==
  /\ pc = "done"
  /\ Len(matches) = 2
  /\ StrLT(matches[1].MATCH_DATE, matches[2].MATCH_DATE)
  /\ club_matches = <<matches[2], matches[1]>>

\* fetch_all_competitions was given no parameters and load_scraper_params
\* gets no dictionary from the file.
ParamsNotLoaded == params.isNone /\ params_file.kind \in {"missing", "malformed", "unreadable", "list"}

\* The loop processes, with no window for the competition in the parameters,
\* an element of two clubs with a score whose settled date is not the
\* placeholder: it becomes a record, whatever its date.
AcceptedWithoutWindow ==
  (/\ AtElement
   /\ ~HasWindow
   /\ Recovered(elements[idx], run_date).teams.found
   /\ Recovered(elements[idx], run_date).score.found
   /\ IsClubTeam(Recovered(elements[idx], run_date).teams.home)
   /\ IsClubTeam(Recovered(elements[idx], run_date).teams.away)
   /\ SettledDate # PLACEHOLDER_DATE)
  => (/\ Len(matches') = Len(matches) + 1
      /\ matches'[Len(matches')].MATCH_DATE = SettledDate)

\* C14: when the parameters cannot be loaded, or hold no window, the run is
\* not ended: it goes on, and a candidate that is otherwise valid is accepted
\* without a test of its date against a window.
RunGoesOnWithoutWindow ==
  /\ [](ParamsNotLoaded => pc # "exited")
  /\ [][AcceptedWithoutWindow]_vars

CompetitionCodes == {COMPETITIONS[c] : c \in 1..Len(COMPETITIONS)}

RaisingElementSkipped ==
  (AtElement /\ Raises(elements[idx]))
  => (matches' = matches /\ failed' = failed + 1 /\ pc' = "loop" /\ idx' = idx + 1)

\* The loop goes from each element to the one after it.
NextElementVisited == (pc = "loop" /\ pc' = "loop") => idx' = idx + 1

\* The function returns after its last element, or with limit records.
ReturnedAtEndOrLimit ==
  pc = "returned" =>
    \/ idx = Len(elements) + 1
    \/ limit # 0 /\ Len(matches) >= limit

\* C16: an exception while the fields of one fragment are recovered gives no
\* record for the fragment, and the extraction goes on with the next one; the
\* function goes through the fragments in the order of the document, one by
\* one, until the last one or until the limit, and returns.
ExceptionSkipsOneFragment ==
  /\ [][RaisingElementSkipped]_vars
  /\ [][NextElementVisited]_vars
  /\ [](ReturnedAtEndOrLimit)
  /\ <>(pc = "returned")

\* C16: the function has returned a record of a fragment that comes after a
\* fragment whose recovery raised.
RecordAfterRaisingFragment ==
  /\ pc = "returned"
  /\ Len(elements) >= 2
  /\ Raises(elements[1])
  /\ failed >= 1
  /\ matches # <<>>

\* C17: a thread at the start of an extraction carries no date and the phase
\* UNKNOWN, whatever it or the other thread has processed; and an extraction
\* that has returned while the other thread ran its own holds the records
\* that the extraction gives when it runs alone.
ExtractionsDoNotInterfere ==
  \A t \in DOMAIN workers :
    /\ (workers[t].pc = "loop" /\ workers[t].idx = 1)
         => (workers[t].st.current_date = <<>> /\ workers[t].st.current_phase = UNKNOWN)
    /\ workers[t].pc = "returned"
         => workers[t].st.matches =
              RunLoop(workers[t].elements, LoopStart, workers[t].competition_code,
                      limit, params, run_date).matches

\* C17: thread 1 is at the start of its second extraction, of a page whose
\* first fragment has no date, while thread 2 is within an extraction of
\* another competition and carries a date and a phase.
FreshStartBesideCarriedState ==
  /\ workers[1].pc = "loop" /\ workers[1].idx = 1 /\ workers[1].extractions = 2
  /\ workers[1].elements = <<UndatedElement>>
  /\ workers[2].pc = "loop" /\ workers[2].idx = 2
  /\ workers[2].competition_code # workers[1].competition_code
  /\ workers[2].st.current_date # <<>>
  /\ workers[2].st.current_phase # UNKNOWN

\* A word of name is, without regard to case, one of CLUB_INDICATORS.
HasClubIndicatorToken(name) ==
  \E w \in {Words(Lower(name))[i] : i \in DOMAIN Words(Lower(name))} :
    \E k \in 1..Len(CLUB_INDICATORS) : w = Lower(CLUB_INDICATORS[k])

\* What C18 states of name, rule by rule.
ClubAsStated(name) ==
  IF Len(Strip(name)) < 3 THEN FALSE
  ELSE IF \E k \in 1..Len(NATIONAL_TEAM_INDICATORS) :
            Contains(NATIONAL_TEAM_INDICATORS[k], Lower(name)) THEN FALSE
  ELSE IF Strip(Lower(name)) \in COUNTRY_ONLY /\ ~HasClubIndicatorToken(name) THEN FALSE
  ELSE TRUE

\* C18: is_club_team is false of a name of fewer than three characters once
\* trimmed; else false of a name that holds a national-team phrase, with or
\* without a club-indicator token; else false of a name that is a bare country
\* name and holds no club-indicator token; and true of every other name.  So
\* Real Madrid, Bayern Munich and Athletic Bilbao are clubs, and FC, England,
\* Croatia and "Spain national team" are not.
IsClubTeamAsStated ==
  \A i \in DOMAIN calls :
    calls[i].fn = "is_club_team" =>
      /\ calls[i].result = ClubAsStated(calls[i].args[1])
      /\ calls[i].args[1] \in { <<"R", "e", "a", "l", " ", "M", "a", "d", "r", "i", "d">>, <<"B", "a", "y", "e", "r", "n", " ", "M", "u", "n", "i", "c", "h">>, <<"A", "t", "h", "l", "e", "t", "i", "c", " ", "B", "i", "l", "b", "a", "o">> }
           => calls[i].result
      /\ calls[i].args[1] \in { <<"F", "C">>, <<"E", "n", "g", "l", "a", "n", "d">>, <<"C", "r", "o", "a", "t", "i", "a">>, <<"S", "p", "a", "i", "n", " ", "n", "a", "t", "i", "o", "n", "a", "l", " ", "t", "e", "a", "m">> }
           => ~calls[i].result

\* The output is the one record of Ath Bilbao against PSG, 0 to 0, dated d,
\* of phase p, with an identifier.
OneBilbaoRecord(d, p) ==
  /\ Len(club_matches) = 1
  /\ club_matches[1].HOME_TEAM = <<"A", "t", "h", " ", "B", "i", "l", "b", "a", "o">>
  /\ club_matches[1].AWAY_TEAM = <<"P", "S", "G">>
  /\ club_matches[1].HOME_GOALS = 0
  /\ club_matches[1].AWAY_GOALS = 0
  /\ club_matches[1].MATCH_DATE = d
  /\ club_matches[1].PHASE = p
  /\ club_matches[1].COMPETITION = <<"U", "C", "L">>
  /\ club_matches[1].SEASON = <<"2", "0", "2", "4", "/", "2", "0", "2", "5">>
  /\ club_matches[1].MATCH_ID # <<>>

\* C19 as stated: the run for UCL over the fragment
\* "Ath Bilbao | PSG | 0 | 0 | 10.12", with the season 2024/2025, on a day of
\* December 2024 gives exactly one record: Ath Bilbao, PSG, 0, 0, dated
\* 2024-12-10, of phase LEAGUE_PHASE, with a MATCH_ID that is not empty.
DecemberFragmentDated2024 ==
  pc = "done" => OneBilbaoRecord(<<"2", "0", "2", "4", "-", "1", "2", "-", "1", "0">>, <<"L", "E", "A", "G", "U", "E", "_", "P", "H", "A", "S", "E">>)

\* C19, amended: on a day from 10 to 31 December 2024 the run gives exactly
\* that record.  On a day from 1 to 9 December 2024 the tenth of December
\* 2024 is still to come and the date is taken for 2023-12-10: the run gives
\* no record dated 2024-12-10; without a window in the parameters it gives
\* the record dated 2023-12-10 of phase UNKNOWN, and with the window none.
DecemberFragmentFromTheTenth ==
  pc = "done" =>
    IF run_date[3] >= 10 THEN OneBilbaoRecord(<<"2", "0", "2", "4", "-", "1", "2", "-", "1", "0">>, <<"L", "E", "A", "G", "U", "E", "_", "P", "H", "A", "S", "E">>)
    ELSE IF HasWindow THEN club_matches = <<>>
    ELSE OneBilbaoRecord(<<"2", "0", "2", "3", "-", "1", "2", "-", "1", "0">>, <<"U", "N", "K", "N", "O", "W", "N">>)

\* C19: the run of 15 December 2024 has ended with one record.
DecemberRunAfterTheMatch ==
  /\ pc = "done"
  /\ run_date = <<2024, 12, 15>>
  /\ elements = <<ShortDateElement>>
  /\ Len(club_matches) = 1

\* The year the rule gives day and month at the processing date now: the
\* current year, or the previous one for a month greater than the current
\* month, and one year further back if that date is after now.
YearAsStated(day, month, now) ==
  LET year == IF month > now[2] THEN now[1] - 1 ELSE now[1]
  IN IF DateLT(now, <<year, month, day>>) THEN year - 1 ELSE year

\* The date the rule gives, as parse_date writes it; nothing when the year has
\* no such day.
DateAsStated(day, month, now) ==
  IF ValidDate(YearAsStated(day, month, now), month, day)
  THEN Strftime(<<YearAsStated(day, month, now), month, day>>)
  ELSE <<>>

\* C20: for a text holding a day and a month with no year, parse_date returns
\* that day and month in the current year, or in the previous year when the
\* month is greater than the current month, one year further back if the
\* result is still after now; what it returns is never later than the current
\* date; and parse_date("31.12") in January of year N returns 31 December of
\* year N - 1.
ParseDateInfersYear ==
  \A i \in DOMAIN calls :
    calls[i].fn = "parse_date" =>
      /\ \A t \in ShortDates :
           calls[i].args[1] = t.text => calls[i].result = DateAsStated(t.day, t.month, run_date)
      /\ calls[i].result # <<>> => ~StrLT(Strftime(run_date), calls[i].result)
      /\ (calls[i].args[1] = <<"3", "1", ".", "1", "2">> /\ run_date[2] = 1)
           => calls[i].result = IntToStr(run_date[1] - 1) \o <<"-", "1", "2", "-", "3", "1">>

RangePhases == { <<"L", "E", "A", "G", "U", "E", "_", "P", "H", "A", "S", "E">>, <<"K", "N", "O", "C", "K", "O", "U", "T", "_", "P", "H", "A", "S", "E">>, <<"R", "O", "U", "N", "D", "_", "O", "F", "_", "1", "6">>, <<"Q", "U", "A", "R", "T", "E", "R", "_", "F", "I", "N", "A", "L">>, <<"S", "E", "M", "I", "_", "F", "I", "N", "A", "L">> }

\* The day of the final of a competition in the season that starts in year y.
FinalDay(competition, y) ==
  IF competition = <<"U", "C", "L">> THEN <<y + 1, 5, 30>>
  ELSE IF competition = <<"U", "E", "L">> THEN <<y + 1, 5, 20>>
  ELSE <<y + 1, 5, 27>>

\* The phases of a competition's calendar whose window, first and last day
\* included, holds the day dt.
PhasesHolding(competition, y, dt) ==
  { PhaseWindows(competition, y)[k][1] :
      k \in { j \in 1..Len(PhaseWindows(competition, y)) :
                /\ DateLE(PhaseWindows(competition, y)[j][2], dt)
                /\ DateLE(dt, PhaseWindows(competition, y)[j][3]) } }

PhaseAsStated(c) ==
  LET competition == c.args[1]
      dt == StrptimeYMD(c.args[2])
      y == ToInt(Take(c.args[3], 4))
      holding == PhasesHolding(competition, y, dt)
  IN c.args[2] # PLACEHOLDER_DATE =>
       /\ \A p \in RangePhases : (c.result = p) <=> (p \in holding)
       /\ (c.result = <<"F", "I", "N", "A", "L">>) <=> (dt = FinalDay(competition, y))
       /\ (c.result = UNKNOWN) <=> (holding = {})
       /\ c.result \in RangePhases \cup { <<"F", "I", "N", "A", "L">>, UNKNOWN }
       /\ Cardinality(holding) <= 1
       \* the final and the first knockout day of UCL are no such days of UEL and UECL
       /\ dt \in { <<y + 1, 5, 30>>, <<y + 1, 2, 17>> } =>
            (c.result = UNKNOWN) <=> (competition # <<"U", "C", "L">>)

\* C21: for each competition, each season and every date but the placeholder
\* 2024-01-01, infer_phase_from_date returns LEAGUE_PHASE, KNOCKOUT_PHASE,
\* ROUND_OF_16, QUARTER_FINAL or SEMI_FINAL exactly when the date lies in that
\* competition's window of that phase, first and last day included, FINAL
\* exactly on that competition's day of the final, and UNKNOWN otherwise; no
\* date lies in two windows; the day of the final and the first knockout day of
\* UCL are UNKNOWN for UEL and UECL.
PhaseIsOfTheCompetitionsWindow ==
  \A i \in DOMAIN calls :
    calls[i].fn = "infer_phase_from_date" => PhaseAsStated(calls[i])

\* C21: a call for UCL on the last day of the window of the semi-finals.
LastDayOfWindowCalled ==
  \E i \in DOMAIN calls :
    /\ calls[i].fn = "infer_phase_from_date"
    /\ calls[i].args = << <<"U", "C", "L">>, <<"2", "0", "2", "5", "-", "0", "5", "-", "0", "6">>, <<"2", "0", "2", "4", "/", "2", "0", "2", "5">> >>
    /\ calls[i].result = <<"S", "E", "M", "I", "_", "F", "I", "N", "A", "L">>

\* The entries of the synonym table whose key occurs in the lowercased label.
KeysIn(label) == { k \in 1..Len(PHASE_MAPPING) : Contains(PHASE_MAPPING[k][1], Lower(label)) }

\* The place of a key in the table.
PlaceOfKey(key) == CHOOSE k \in 1..Len(PHASE_MAPPING) : PHASE_MAPPING[k][1] = key

\* The result is the phase of the first entry whose key occurs in the label,
\* and UNKNOWN for the empty label.
FirstSynonymIsReturned(c) ==
  /\ KeysIn(c.args[1]) # {} => c.result = PHASE_MAPPING[SetMin(KeysIn(c.args[1]))][2]
  /\ c.args[1] = <<>> => c.result = UNKNOWN

\* A label that holds one of the four keys never maps to FINAL, and a label
\* that holds "group" maps to LEAGUE_PHASE.
NeverFinal(c) ==
  /\ KeysIn(c.args[1]) \cap { PlaceOfKey(<<"s", "e", "m", "i", "-", "f", "i", "n", "a", "l">>), PlaceOfKey(<<"q", "u", "a", "r", "t", "e", "r", "-", "f", "i", "n", "a", "l">>),
                               PlaceOfKey(<<"1", "/", "4", " ", "f", "i", "n", "a", "l">>), PlaceOfKey(<<"1", "/", "8", " ", "f", "i", "n", "a", "l">>) } # {}
       => c.result # <<"F", "I", "N", "A", "L">>
  /\ PlaceOfKey(<<"g", "r", "o", "u", "p">>) \in KeysIn(c.args[1]) => c.result = <<"L", "E", "A", "G", "U", "E", "_", "P", "H", "A", "S", "E">>

\* C22 as stated: normalize_phase returns the phase of the first entry of the
\* synonym table whose key occurs in the lowercased label; a label containing
\* "semi-final", "quarter-final", "1/4 final" or "1/8 final" maps to
\* SEMI_FINAL, QUARTER_FINAL, QUARTER_FINAL and ROUND_OF_16 and never to
\* FINAL; "group" and "group stage" map to LEAGUE_PHASE; the empty label maps
\* to UNKNOWN.
LabelWithKeyMapsToItsPhase ==
  \A i \in DOMAIN calls :
    calls[i].fn = "normalize_phase" =>
      /\ FirstSynonymIsReturned(calls[i])
      /\ NeverFinal(calls[i])
      /\ \A key \in { <<"s", "e", "m", "i", "-", "f", "i", "n", "a", "l">>, <<"q", "u", "a", "r", "t", "e", "r", "-", "f", "i", "n", "a", "l">>, <<"1", "/", "4", " ", "f", "i", "n", "a", "l">>, <<"1", "/", "8", " ", "f", "i", "n", "a", "l">> } :
           PlaceOfKey(key) \in KeysIn(calls[i].args[1])
             => calls[i].result = PHASE_MAPPING[PlaceOfKey(key)][2]

\* C22, amended: the same, a label containing one of the four keys mapping
\* to the key's phase when no key of another phase that occurs in the label
\* comes earlier in the table; a label that also holds such a key (as
\* "league" in "Champions League - Semi-finals") maps to that key's phase.
LabelMapsToFirstKeysPhase ==
  \A i \in DOMAIN calls :
    calls[i].fn = "normalize_phase" =>
      /\ FirstSynonymIsReturned(calls[i])
      /\ NeverFinal(calls[i])
      /\ \A key \in { <<"s", "e", "m", "i", "-", "f", "i", "n", "a", "l">>, <<"q", "u", "a", "r", "t", "e", "r", "-", "f", "i", "n", "a", "l">>, <<"1", "/", "4", " ", "f", "i", "n", "a", "l">>, <<"1", "/", "8", " ", "f", "i", "n", "a", "l">> } :
           ( /\ PlaceOfKey(key) \in KeysIn(calls[i].args[1])
             /\ \A j \in KeysIn(calls[i].args[1]) :
                  j < PlaceOfKey(key) => PHASE_MAPPING[j][2] = PHASE_MAPPING[PlaceOfKey(key)][2] )
             => calls[i].result = PHASE_MAPPING[PlaceOfKey(key)][2]

\* C22: normalize_phase was called with a label that holds "semi-final" and
\* "final" and nothing earlier, and returned SEMI_FINAL.
SemiFinalsLabelCalled ==
  \E i \in DOMAIN calls :
    /\ calls[i].fn = "normalize_phase"
    /\ calls[i].args[1] = <<"S", "e", "m", "i", "-", "f", "i", "n", "a", "l", "s">>
    /\ calls[i].result = <<"S", "E", "M", "I", "_", "F", "I", "N", "A", "L">>

\* The loop is about to process a fragment with two teams and a score: it
\* comes to the lines that settle the phase.
AtCandidate ==
  /\ AtElement
  /\ ~Raises(elements[idx])
  /\ Recovered(elements[idx], run_date).teams.found
  /\ Recovered(elements[idx], run_date).score.found

\* The text of the label of elements[idx], empty when it has none.
LabelHere == Recovered(elements[idx], run_date).phase_text

\* What infer_phase_from_date gives for the date settled for elements[idx].
InferredHere ==
  InferPhaseFromDate(competition_code, SettledDate, SeasonOf(SettledDate, params, run_date))

\* The step gives the fragment the phase p: p is carried on, and is the PHASE
\* of the record if one is appended.
GetsPhase(p) ==
  /\ current_phase' = p
  /\ Len(matches') = Len(matches) + 1 => matches'[Len(matches')].PHASE = p

PhaseStepAsStated ==
  AtCandidate =>
    IF LabelHere # <<>> THEN GetsPhase(NormalizePhase(LabelHere))
    ELSE IF current_phase # UNKNOWN THEN GetsPhase(current_phase)
    ELSE GetsPhase(InferredHere)

PhaseStepAmended ==
  AtCandidate =>
    IF LabelHere # <<>> /\ NormalizePhase(LabelHere) # UNKNOWN
      THEN GetsPhase(NormalizePhase(LabelHere))
    ELSE IF LabelHere = <<>> /\ current_phase # UNKNOWN THEN GetsPhase(current_phase)
    ELSE GetsPhase(InferredHere)

\* C23 as stated: a fragment with a phase label gets normalize_phase of the
\* label; a fragment without one gets the phase most recently determined for
\* an earlier fragment of the run; the phase is inferred from the date only
\* for a fragment without a label when the phase carried is still UNKNOWN.
LabelThenCarriedThenInferred == [][PhaseStepAsStated]_vars

\* C23, amended: the same, but a label that normalize_phase turns into
\* UNKNOWN is followed by the inference from the date, whatever phase was
\* carried, and the fragment gets the inferred phase.
LabelUnlessUnknownThenCarriedThenInferred == [][PhaseStepAmended]_vars

\* C23: a fragment without a label came after a labelled one and after one
\* with an inferred phase, and each record has its phase.
CarriedPhaseGiven ==
  /\ pc = "returned"
  /\ elements = <<PlainElement, RoundElement, UndatedElement>>
  /\ Len(matches) = 3
  /\ matches[1].PHASE = <<"L", "E", "A", "G", "U", "E", "_", "P", "H", "A", "S", "E">>
  /\ matches[2].PHASE = <<"R", "O", "U", "N", "D", "_", "3">>
  /\ matches[3].PHASE = <<"R", "O", "U", "N", "D", "_", "3">>

\* The earlier fragments of the page whose date was parsed: those with two
\* teams and a score, which come to the lines of the date, and a date found.
DatedBefore ==
  { k \in 1..(idx - 1) :
      /\ ~Raises(elements[k])
      /\ Recovered(elements[k], run_date).teams.found
      /\ Recovered(elements[k], run_date).score.found
      /\ Recovered(elements[k], run_date).date # <<>> }

\* The date of the most recent of them.
LastDateBefore == Recovered(elements[SetMax(DatedBefore)], run_date).date

UndatedStep ==
  (/\ AtCandidate
   /\ Recovered(elements[idx], run_date).date = <<>>
   /\ DatedBefore # {})
  => /\ SettledDate = LastDateBefore
     /\ current_date' = LastDateBefore
     /\ Len(matches') = Len(matches) + 1 => matches'[Len(matches')].MATCH_DATE = LastDateBefore
     /\ Len(matches') = Len(matches) =>
          \/ ~IsClubTeam(Recovered(elements[idx], run_date).teams.home)
          \/ ~IsClubTeam(Recovered(elements[idx], run_date).teams.away)
          \/ InvalidDate(LastDateBefore)
          \/ OutOfRange(LastDateBefore, competition_code, params)

\* C24: a fragment with no date of its own, processed after a fragment of the
\* run whose date was parsed, is given the date of the most recent such
\* fragment: its record carries that date, and it is dropped only for what
\* that date or its teams are.
UndatedTakesLastParsedDate == [][UndatedStep]_vars

\* C24: an undated fragment after two dated ones has the date of the second.
UndatedAfterTwoDated ==
  /\ pc = "returned"
  /\ elements = <<KnockoutElement, PlainElement, UndatedElement>>
  /\ Len(matches) = 3
  /\ matches[3].MATCH_DATE = <<"2", "0", "2", "4", "-", "1", "2", "-", "1", "0">>

\* C25: for a date-shaped token the inline recovery of the date on a part of
\* the delimited text gives what parse_date gives for the token at the same
\* current date: the same date for a token with a year, the same inferred
\* year for a token without one, and no date where parse_date returns none.
InlineDateIsParseDate ==
  calls # <<>> =>
    /\ calls[1].fn = "parse_date"
    /\ calls[2].fn = "Method 1"
    /\ calls[1].args = calls[2].args
    /\ calls[1].result = calls[2].result

\* C26: is_club_team is false of every name that, case and blanks around it
\* set aside, is one of the thirty country names of country_only_patterns.
BareCountryIsNoClub ==
  \A i \in DOMAIN calls :
    (calls[i].fn = "is_club_team" /\ Strip(Lower(calls[i].args[1])) \in COUNTRY_ONLY)
      => ~calls[i].result

\* The season configured, empty when there is none.
ConfiguredSeason == IF params.isNone THEN <<>> ELSE ParamsGet(params, <<"S", "E", "A", "S", "O", "N">>)

\* "Y/Y+1" for the date text d: Y its year from July on, the year before
\* until June.
SeasonByMonth(d) ==
  LET year == ToInt(SubSeq(d, 1, 4))
      month == ToInt(SubSeq(d, 6, 7))
      first == IF month >= 7 THEN year ELSE year - 1
  IN IntToStr(first) \o <<"/">> \o IntToStr(first + 1)

Rejects(element, st) ==
  /\ ~Raises(element)
  /\ Recovered(element, run_date).teams.found
  /\ Recovered(element, run_date).score.found
  /\ ProcessElement(element, st, competition_code, limit, params, run_date).failed = st.failed + 1

RECURSIVE Unrejected(_, _)
\* The fragments of a page, from the locals st on, without those the run
\* rejects.
Unrejected(page, st) ==
  IF page = <<>> THEN <<>>
  ELSE (IF Rejects(Head(page), st) THEN <<>> ELSE <<Head(page)>>)
       \o Unrejected(Tail(page),
                     ProcessElement(Head(page), st, competition_code, limit, params, run_date))

\* C28: a rejected fragment does not change what is emitted for the fragments
\* after it: the records returned for the page, with their PHASE and
\* MATCH_DATE, are the records returned for the page without its rejected
\* fragments.
RejectedFragmentsLeaveNoTrace ==
  pc = "returned" =>
    matches = RunLoop(Unrejected(elements, LoopStart), LoopStart, competition_code, limit,
                      params, run_date).matches

\* The records the loop accepts over the whole page, in document order, when
\* no limit is given.
AcceptedInOrder ==
  RunLoop(elements, LoopStart, competition_code, 0, params, run_date).matches

\* C29: with a positive limit scrape_flashscore_competition returns at most
\* limit records, and they are the first limit accepted records of the page
\* in document order.
ScrapeReturnsFirstLimit ==
  (pc = "scraped" /\ limit > 0) =>
    /\ Len(matches) <= limit
    /\ matches = Take(AcceptedInOrder, limit)

\* The passes of the loop begun so far: the fragments processed.
FragmentsProcessed == idx - 1

\* C30: every processed fragment is counted in exactly one of successful,
\* failed, no_score and no_teams: in the loop and at return the four add up
\* to the number of fragments processed, and successful is the number of
\* records.
EveryFragmentCountedOnce ==
  pc \in {"loop", "returned"} =>
    /\ successful + failed + no_score + no_teams = FragmentsProcessed
    /\ successful = Len(matches)

\* A page whose run ends at the limit before its last fragment, after an
\* accepted fragment and one of another counter: C30's case.
ReturnedAtLimitWithOthersCounted ==
  /\ pc = "returned"
  /\ limit = 1
  /\ FragmentsProcessed < Len(elements)
  /\ successful = 1
  /\ failed + no_score + no_teams >= 1
====
